---- MODULE Spec2Model ----
(***************************************************************************)
(* Location registry (emmrys-jay/leeta-exercise): the locations table, the *)
(* LocationRepository over it, the LocationService and the LocationHandler *)
(* entry points.  Strings are sequences of one-character strings so that   *)
(* slug.Make is computed, not assumed.  Coordinates are whole degrees on a *)
(* 45-degree grid; distances are WGS84 geodesic lengths in whole meters.   *)
(***************************************************************************)
EXTENDS Integers, Sequences, FiniteSets, TLC

VARIABLES rows, nextId, clock, last, pc, req, resp

vars == <<rows, nextId, clock, last, pc, req, resp>>

(***************************************************************************)
(* Bounds of the model.                                                    *)
(***************************************************************************)
MaxId == 2
MaxClock == 1
NProcs == 3

Procs == 1..NProcs

(***************************************************************************)
(* Inputs.                                                                 *)
(***************************************************************************)
EmptyName == <<>>
NameAb == <<"A", "b">>
Nameab == <<"a", "b">>
NameA_b == <<"A", " ", "b">>
Namea_b == <<"a", "-", "b">>
NameBang == <<"!">>
NameB == <<"B">>

\* names offered to register: an empty one, two that share the slug "ab" (the
\* second is that slug), one whose slug "a-b" differs from it, and one whose
\* slug is empty
RegNames == {EmptyName, NameAb, Nameab, NameA_b, NameBang}
\* keys offered to get and delete: the names, their slugs, and a key nothing matches
Keys == RegNames \cup {Namea_b, NameB}

\* latitudes / longitudes offered to register: in range, zero, out of range
RegLats == {-100, -45, 0, 45, 100}
RegLons == {-200, 0, 90, 200}
\* the register requests the handler is offered: every non-empty name at each
\* accepted position, and requests with an empty name, a zero coordinate or
\* a coordinate out of range
RegRequests ==
    {[name |-> n, latitude |-> lat, longitude |-> 90] :
        n \in RegNames \ {EmptyName}, lat \in {-45, 45}}
    \cup {[name |-> EmptyName, latitude |-> 45, longitude |-> 90],
          [name |-> NameAb, latitude |-> 0, longitude |-> 90],
          [name |-> NameAb, latitude |-> 100, longitude |-> 90],
          [name |-> NameAb, latitude |-> -100, longitude |-> 90],
          [name |-> NameAb, latitude |-> 45, longitude |-> -200],
          [name |-> NameAb, latitude |-> 45, longitude |-> 0],
          [name |-> NameAb, latitude |-> 45, longitude |-> 200],
          [name |-> EmptyName, latitude |-> 100, longitude |-> 200]}
\* coordinates offered to the nearest-location query
QueryLats == {0, 45, 90}
QueryLons == {-90, 90}

\* the lat and lng query parameters as the request carries them, character by
\* character: whole numbers, decimal fractions, a fraction no float64 holds
\* (45.00000000000000000001, nearest to 45), the word NaN, an absent
\* parameter (the empty text) and texts that are no number
RawLats == {<<"0">>, <<"4", "5">>, <<"9", "0">>, <<"4", "0", ".", "7", "1", "2", "8">>,
            <<"4", "5", ".", "0", "0", "0", "0", "0", "0", "0", "0", "0", "0", "0",
              "0", "0", "0", "0", "0", "0", "0", "0", "0", "0", "1">>,
            <<"N", "a", "N">>, <<>>, <<"a", "b", "c">>}
RawLons == {<<"-", "9", "0">>, <<"9", "0">>, <<"-", "7", "3", ".", "9", "8", "5", "1">>,
            <<>>, <<"9", "0", "x">>}

(***************************************************************************)
(* github.com/gosimple/slug: Make, as called by the repository.            *)
(***************************************************************************)
ToLower(c) == IF c = "A" THEN "a" ELSE IF c = "B" THEN "b" ELSE c

\* regexpNonAuthorizedChars = [^a-zA-Z0-9-_]
Authorized(c) ==
    c \in {"a", "b", "c", "d", "e", "f", "g", "h", "i", "j", "k", "l", "m",
           "n", "o", "p", "q", "r", "s", "t", "u", "v", "w", "x", "y", "z",
           "A", "B", "0", "1", "2", "3", "4", "5", "6", "7", "8", "9", "-", "_"}

RECURSIVE TrimLeft(_, _)
TrimLeft(s, cut) ==
    IF s # <<>> /\ Head(s) \in cut THEN TrimLeft(Tail(s), cut) ELSE s

RECURSIVE TrimRight(_, _)
TrimRight(s, cut) ==
    IF s # <<>> /\ s[Len(s)] \in cut
    THEN TrimRight(SubSeq(s, 1, Len(s) - 1), cut)
    ELSE s

Trim(s, cut) == TrimRight(TrimLeft(s, cut), cut)

MapLower(s) == [i \in 1..Len(s) |-> ToLower(s[i])]

ReplaceNonAuthorized(s) ==
    [i \in 1..Len(s) |-> IF Authorized(s[i]) THEN s[i] ELSE "-"]

\* regexpMultipleDashes = -+ replaced by a single dash
RECURSIVE CollapseDashes(_)
CollapseDashes(s) ==
    IF Len(s) < 2 THEN s
    ELSE IF s[1] = "-" /\ s[2] = "-" THEN CollapseDashes(Tail(s))
    ELSE <<s[1]>> \o CollapseDashes(Tail(s))

Slugify(name) ==
    Trim(CollapseDashes(ReplaceNonAuthorized(MapLower(Trim(name, {" "})))),
         {"-", "_"})

(***************************************************************************)
(* domain errors (CError: an HTTP-like code and a message).                *)
(***************************************************************************)
NoErr == [code |-> 0, msg |-> ""]
NewCError(code, msg) == [code |-> code, msg |-> msg]
NewInternalCError(msg) == [code |-> 500, msg |-> msg]
NewBadRequestCError(msg) == [code |-> 400, msg |-> msg]
ErrConflictingData == [code |-> 409, msg |-> "data conflicts with existing data in unique column"]
ErrDataNotFound == [code |-> 404, msg |-> "data not found"]
ErrInternal == [code |-> 500, msg |-> "internal error"]

(***************************************************************************)
(* The storage engine: driver errors, the point geometry, the distance.    *)
(***************************************************************************)
NoDbErr == [nil |-> TRUE, pg |-> FALSE, code |-> "", text |-> ""]
PgUniqueViolation == [nil |-> FALSE, pg |-> TRUE, code |-> "23505", text |-> "duplicate key value violates unique constraint"]
DriverFailure == [nil |-> FALSE, pg |-> FALSE, code |-> "", text |-> "driver: connection failure"]
PgOtherError == [nil |-> FALSE, pg |-> TRUE, code |-> "57014", text |-> "canceling statement due to user request"]

\* the ways a statement can fail for reasons outside the table's contents: the
\* connection fails before the engine runs the statement ("conn"), the engine
\* reports an error that is not a unique violation ("pg"), or the connection
\* fails after the engine ran and committed the statement, while the caller
\* waits for its result ("lost")
Faults == {"conn", "pg", "lost"}
StorageError(fault) == IF fault = "pg" THEN PgOtherError ELSE DriverFailure

ErrorCodeNotPg(err) == "0000"

\* DB.ErrorCode
ErrorCode(err) == IF err.pg THEN err.code ELSE "0000"

\* ST_MakePoint(x, y)::geography: x is the longitude, y the latitude
ST_MakePoint(x, y) == [x |-> x, y |-> y]

Abs(n) == IF n < 0 THEN -n ELSE n
Min(m, n) == IF m <= n THEN m ELSE n
Max(m, n) == IF m <= n THEN n ELSE m

\* WGS84 geodesic length in meters between latitudes t[1] <= t[2] whose
\* longitudes differ by t[3] degrees
GeodesicTable ==
    { <<-90, -90, 0, 0>>, <<-90, -90, 45, 0>>, <<-90, -90, 90, 0>>,
      <<-90, -90, 135, 0>>, <<-90, -90, 180, 0>>, <<-90, -45, 0, 5017021>>,
      <<-90, -45, 45, 5017021>>, <<-90, -45, 90, 5017021>>, <<-90, -45, 135, 5017021>>,
      <<-90, -45, 180, 5017021>>, <<-90, 0, 0, 10001966>>, <<-90, 0, 45, 10001966>>,
      <<-90, 0, 90, 10001966>>, <<-90, 0, 135, 10001966>>, <<-90, 0, 180, 10001966>>,
      <<-90, 45, 0, 14986910>>, <<-90, 45, 45, 14986910>>, <<-90, 45, 90, 14986910>>,
      <<-90, 45, 135, 14986910>>, <<-90, 45, 180, 14986910>>, <<-90, 90, 0, 20003931>>,
      <<-90, 90, 45, 20003931>>, <<-90, 90, 90, 20003931>>, <<-90, 90, 135, 20003931>>,
      <<-90, 90, 180, 20003931>>, <<-45, -45, 0, 0>>, <<-45, -45, 45, 3501260>>,
      <<-45, -45, 90, 6690233>>, <<-45, -45, 135, 9095733>>, <<-45, -45, 180, 10034043>>,
      <<-45, 0, 0, 4984944>>, <<-45, 0, 45, 6662473>>, <<-45, 0, 90, 10010386>>,
      <<-45, 0, 135, 13352683>>, <<-45, 0, 180, 15018987>>, <<-45, 45, 0, 9969889>>,
      <<-45, 45, 45, 10912513>>, <<-45, 45, 90, 13324945>>, <<-45, 45, 135, 16518194>>,
      <<-45, 45, 180, 20003931>>, <<-45, 90, 0, 14986910>>, <<-45, 90, 45, 14986910>>,
      <<-45, 90, 90, 14986910>>, <<-45, 90, 135, 14986910>>, <<-45, 90, 180, 14986910>>,
      <<0, 0, 0, 0>>, <<0, 0, 45, 5009377>>, <<0, 0, 90, 10018754>>,
      <<0, 0, 135, 15028131>>, <<0, 0, 180, 20003931>>, <<0, 45, 0, 4984944>>,
      <<0, 45, 45, 6662473>>, <<0, 45, 90, 10010386>>, <<0, 45, 135, 13352683>>,
      <<0, 45, 180, 15018987>>, <<0, 90, 0, 10001966>>, <<0, 90, 45, 10001966>>,
      <<0, 90, 90, 10001966>>, <<0, 90, 135, 10001966>>, <<0, 90, 180, 10001966>>,
      <<45, 45, 0, 0>>, <<45, 45, 45, 3501260>>, <<45, 45, 90, 6690233>>,
      <<45, 45, 135, 9095733>>, <<45, 45, 180, 10034043>>, <<45, 90, 0, 5017021>>,
      <<45, 90, 45, 5017021>>, <<45, 90, 90, 5017021>>, <<45, 90, 135, 5017021>>,
      <<45, 90, 180, 5017021>>, <<90, 90, 0, 0>>, <<90, 90, 45, 0>>,
      <<90, 90, 90, 0>>, <<90, 90, 135, 0>>, <<90, 90, 180, 0>> }

DeltaLon(x1, x2) == IF Abs(x1 - x2) > 180 THEN 360 - Abs(x1 - x2) ELSE Abs(x1 - x2)

\* the table as a function of <<lesser latitude, greater latitude, longitude gap>>
GeodesicMeters ==
    [k \in {<<t[1], t[2], t[3]>> : t \in GeodesicTable} |->
        (CHOOSE t \in GeodesicTable : <<t[1], t[2], t[3]>> = k)[4]]

ST_Distance(g, h) ==
    GeodesicMeters[<<Min(g.y, h.y), Max(g.y, h.y), DeltaLon(g.x, h.x)>>]

(***************************************************************************)
(* The locations table.  The migration that creates it is not among the    *)
(* sources: its id and created_at defaults and its unique constraints on   *)
(* name and on slug are taken from the specification.                      *)
(***************************************************************************)
NoRow == [id |-> 0, name |-> <<>>, slug |-> <<>>, latitude |-> 0, longitude |-> 0,
          geo |-> ST_MakePoint(0, 0), created_at |-> 0]

UniqueViolationNameOnly(table, name, slug) == \E r \in table : r.name = name

UniqueViolation(table, name, slug) ==
    \E r \in table : r.name = name \/ r.slug = slug

\* one INSERT statement: all columns of the row commit together or none does.
\* When the result is lost on its way to the caller the row is stored all the
\* same and the caller gets the driver's error
PgInsert(table, values, id, now, fault) ==
    IF fault \in {"conn", "pg"}
    THEN [err |-> StorageError(fault), table |-> table, row |-> NoRow]
    ELSE IF UniqueViolation(table, values.name, values.slug)
    THEN [err |-> IF fault = "lost" THEN StorageError(fault) ELSE PgUniqueViolation,
          table |-> table, row |-> NoRow]
    ELSE LET row == [id |-> id, name |-> values.name, slug |-> values.slug,
                     latitude |-> values.latitude, longitude |-> values.longitude,
                     geo |-> values.geo, created_at |-> now]
         IN  IF fault = "lost"
             THEN [err |-> StorageError(fault), table |-> table \cup {row},
                   row |-> NoRow]
             ELSE [err |-> NoDbErr, table |-> table \cup {row}, row |-> row]

(***************************************************************************)
(* domain.Location and the repository.                                     *)
(***************************************************************************)
NoLocation == [id |-> 0, name |-> <<>>, slug |-> <<>>, latitude |-> 0, longitude |-> 0,
               created_at |-> 0]

\* Scan of the columns id, name, slug, latitude, longitude, created_at
ScanLocation(r) ==
    [id |-> r.id, name |-> r.name, slug |-> r.slug, latitude |-> r.latitude,
     longitude |-> r.longitude, created_at |-> r.created_at]

\* INSERT INTO locations (name, slug, latitude, longitude, geo)
\* VALUES ($1, $2, $3, $4, ST_MakePoint($4, $3)::geography)
InsertValuesSwapped(a1, a2, a3, a4) ==
    [name |-> a1, slug |-> a2, latitude |-> a3, longitude |-> a4,
     geo |-> ST_MakePoint(a3, a4)]

InsertValues(a1, a2, a3, a4) ==
    [name |-> a1, slug |-> a2, latitude |-> a3, longitude |-> a4,
     geo |-> ST_MakePoint(a4, a3)]

\* the name passed as the slug argument as it is
CreateLocationNameAsSlug(table, location, id, now, fault) ==
    LET q == PgInsert(table,
                      InsertValues(location.name, location.name,
                                   location.latitude, location.longitude),
                      id, now, fault)
    IN  IF ~q.err.nil
        THEN IF ErrorCode(q.err) = "23505"
             THEN [table |-> q.table, found |-> FALSE, loc |-> NoLocation,
                   err |-> ErrConflictingData]
             ELSE [table |-> q.table, found |-> FALSE, loc |-> NoLocation,
                   err |-> NewInternalCError(q.err.text)]
        ELSE [table |-> q.table, found |-> TRUE, loc |-> ScanLocation(q.row),
              err |-> NoErr]

CreateLocation(table, location, id, now, fault) ==
    LET q == PgInsert(table,
                      InsertValues(location.name, Slugify(location.name),
                                   location.latitude, location.longitude),
                      id, now, fault)
    IN  IF ~q.err.nil
        THEN IF ErrorCode(q.err) = "23505"
             THEN [table |-> q.table, found |-> FALSE, loc |-> NoLocation,
                   err |-> ErrConflictingData]
             ELSE [table |-> q.table, found |-> FALSE, loc |-> NoLocation,
                   err |-> NewInternalCError(q.err.text)]
        ELSE [table |-> q.table, found |-> TRUE, loc |-> ScanLocation(q.row),
              err |-> NoErr]

\* WHERE name = $1
MatchNameOnly(table, name) == {r \in table : r.name = name}

\* WHERE name = $1 OR slug = $2, as built for get and for delete
MatchNameOrSlug(table, name) ==
    LET slug == Slugify(name)
    IN  {r \in table : r.name = name \/ r.slug = slug}

\* LIMIT 1 without ORDER BY: any matching row may be the one returned
GetLocationByName(table, name, fault) ==
    IF fault # "none"
    THEN {[found |-> FALSE, loc |-> NoLocation, err |-> NewInternalCError(StorageError(fault).text)]}
    ELSE IF MatchNameOrSlug(table, name) = {}
    THEN {[found |-> FALSE, loc |-> NoLocation, err |-> ErrDataNotFound]}
    ELSE {[found |-> TRUE, loc |-> ScanLocation(r), err |-> NoErr] :
             r \in MatchNameOrSlug(table, name)}

\* DELETE ... WHERE name = $1
DeleteLocationNameOnly(table, name, fault) ==
    IF fault # "none"
    THEN [table |-> table, err |-> NewInternalCError(StorageError(fault).text)]
    ELSE [table |-> {r \in table : r.name # name}, err |-> NoErr]

\* if result.RowsAffected() == 0 { return domain.ErrDataNotFound }
DeleteLocationChecksRowsAffected(table, name, fault) ==
    IF fault # "none"
    THEN [table |-> table, err |-> NewInternalCError(StorageError(fault).text)]
    ELSE IF \A r \in table : r.name # name /\ r.slug # Slugify(name)
    THEN [table |-> table, err |-> ErrDataNotFound]
    ELSE [table |-> {r \in table : r.name # name /\ r.slug # Slugify(name)},
          err |-> NoErr]

\* DELETE FROM locations, without the WHERE
DeleteLocationNoWhere(table, name, fault) ==
    IF fault # "none"
    THEN [table |-> table, err |-> NewInternalCError(StorageError(fault).text)]
    ELSE [table |-> {}, err |-> NoErr]

\* Exec of the DELETE: when its result is lost on the way to the caller the
\* rows are deleted all the same and the caller gets the driver's error
DeleteLocation(table, name, fault) ==
    IF fault \in {"conn", "pg"}
    THEN [table |-> table, err |-> NewInternalCError(StorageError(fault).text)]
    ELSE IF fault = "lost"
    THEN [table |-> table \ MatchNameOrSlug(table, name),
          err |-> NewInternalCError(StorageError(fault).text)]
    ELSE [table |-> table \ MatchNameOrSlug(table, name), err |-> NoErr]

\* a Go slice: nil until the first append
NilSlice == [isNil |-> TRUE, items |-> <<>>]
GoAppend(slice, x) == [isNil |-> FALSE, items |-> Append(slice.items, x)]

IsOrderedAsc(s) ==
    \A i, j \in 1..Len(s) : i < j => s[i].created_at <= s[j].created_at

IsOrderedDesc(s) ==
    \A i, j \in 1..Len(s) : i < j => s[i].created_at >= s[j].created_at

\* SELECT ... FROM locations ORDER BY created_at DESC: every row once; rows
\* with equal created_at come in any order
SelectOrderByCreatedAtDesc(table) ==
    {s \in [1..Cardinality(table) -> table] :
        /\ \A r \in table : \E i \in 1..Cardinality(table) : s[i] = r
        /\ IsOrderedDesc(s)}

\* for rows.Next() { rows.Scan(&location); locations = append(locations, location) }
RECURSIVE ScanRows(_, _)
ScanRows(rs, locations) ==
    IF rs = <<>> THEN locations
    ELSE ScanRows(Tail(rs), GoAppend(locations, ScanLocation(Head(rs))))

\* where a failing storage can strike ListLocations: at Query, at the Scan of
\* a row, or in a fetch of rows.Next()
ListFaultPoints == {"query", "scan", "rows"}

\* Query and Scan return their error, which is answered with
\* NewInternalCError; rows.Next() answers false when a fetch fails after n
\* rows (after all of them, too) and the loop ends as at the end of the
\* result: rows.Err() is not read, and the n locations appended so far (the
\* nil slice when there is none) are returned with a nil error
ListLocationsAt(table, fault, point) ==
    IF point \in {"query", "scan"}
    THEN {[locations |-> NilSlice, err |-> NewInternalCError(StorageError(fault).text)]}
    ELSE {[locations |-> ScanRows(SubSeq(rs, 1, n), NilSlice), err |-> NoErr] :
             rs \in SelectOrderByCreatedAtDesc(table),
             n \in 0..Cardinality(table)}

ListLocations(table, fault) ==
    IF fault # "none"
    THEN UNION {ListLocationsAt(table, fault, point) : point \in ListFaultPoints}
    ELSE {[locations |-> ScanRows(rs, NilSlice), err |-> NoErr] :
             rs \in SelectOrderByCreatedAtDesc(table)}

\* ORDER BY distance_meters LIMIT 1: any row at the least distance
NearestRowsUnordered(table, q) == table

NearestRows(table, q) ==
    {r \in table :
        \A m \in table : ST_Distance(r.geo, q) <= ST_Distance(m.geo, q)}

\* ST_MakePoint($1, $2) with QueryRow(ctx, query, longitude, latitude)
NearestQueryPoint(latitude, longitude) == ST_MakePoint(longitude, latitude)

GetNearestLocation(table, latitude, longitude, fault) ==
    IF fault # "none"
    THEN {[found |-> FALSE, loc |-> NoLocation, distance |-> 0,
           err |-> NewInternalCError(StorageError(fault).text)]}
    ELSE IF NearestRows(table, NearestQueryPoint(latitude, longitude)) = {}
    THEN {[found |-> FALSE, loc |-> NoLocation, distance |-> 0,
           err |-> ErrDataNotFound]}
    ELSE {[found |-> TRUE, loc |-> ScanLocation(r),
           distance |-> ST_Distance(r.geo, NearestQueryPoint(latitude, longitude)),
           err |-> NoErr] :
             r \in NearestRows(table, NearestQueryPoint(latitude, longitude))}

(***************************************************************************)
(* LocationService.                                                        *)
(***************************************************************************)
\* Longitude: location.Latitude
RegisterLocationLatitudeTwice(table, request, id, now, fault) ==
    LET r == CreateLocation(table,
                            [NoLocation EXCEPT !.name = request.name,
                                               !.latitude = request.latitude,
                                               !.longitude = request.latitude],
                            id, now, fault)
    IN  [table |-> r.table, found |-> r.found, loc |-> r.loc, err |-> r.err,
         logged |-> FALSE, calls |-> 1]

\* return nil, cerr
RegisterLocationPassThrough(table, request, id, now, fault) ==
    LET r == CreateLocation(table,
                            [NoLocation EXCEPT !.name = request.name,
                                               !.latitude = request.latitude,
                                               !.longitude = request.longitude],
                            id, now, fault)
    IN  [table |-> r.table, found |-> r.found, loc |-> r.loc, err |-> r.err,
         logged |-> FALSE, calls |-> 1]

RegisterLocation(table, request, id, now, fault) ==
    LET locationToCreate ==
            [NoLocation EXCEPT !.name = request.name,
                               !.latitude = request.latitude,
                               !.longitude = request.longitude]
        r == CreateLocation(table, locationToCreate, id, now, fault)
    IN  IF r.err # NoErr
        THEN IF r.err.code = 409
             THEN [table |-> r.table, found |-> FALSE, loc |-> NoLocation,
                   err |-> NewCError(r.err.code, "location already exists"),
                   logged |-> FALSE, calls |-> 1]
             ELSE [table |-> r.table, found |-> FALSE, loc |-> NoLocation,
                   err |-> ErrInternal, logged |-> TRUE, calls |-> 1]
        ELSE [table |-> r.table, found |-> TRUE, loc |-> r.loc, err |-> NoErr,
              logged |-> FALSE, calls |-> 1]

\* return nil, cerr for every repository error
GetLocationPassThrough(table, name, fault) ==
    {[found |-> o.found, loc |-> o.loc, err |-> o.err, logged |-> FALSE, calls |-> 1] :
        o \in GetLocationByName(table, name, fault)}

GetLocation(table, name, fault) ==
    {IF o.err # NoErr
     THEN IF o.err.code = 500
          THEN [found |-> FALSE, loc |-> NoLocation, err |-> ErrInternal, logged |-> TRUE, calls |-> 1]
          ELSE [found |-> FALSE, loc |-> NoLocation, err |-> o.err, logged |-> FALSE, calls |-> 1]
     ELSE [found |-> TRUE, loc |-> o.loc, err |-> NoErr, logged |-> FALSE, calls |-> 1] :
        o \in GetLocationByName(table, name, fault)}

SvcListLocations(table, fault) ==
    {IF o.err # NoErr
     THEN [locations |-> NilSlice, err |-> ErrInternal, logged |-> TRUE, calls |-> 1]
     ELSE [locations |-> o.locations, err |-> NoErr, logged |-> FALSE, calls |-> 1] :
        o \in ListLocations(table, fault)}

\* a delete that tries the statement a second time when the first one failed
SvcDeleteLocationRetry(table, name, fault) ==
    LET r1 == DeleteLocation(table, name, fault)
        r  == IF r1.err # NoErr /\ r1.err.code = 500
              THEN DeleteLocation(r1.table, name, "none") ELSE r1
        n  == IF r1.err # NoErr /\ r1.err.code = 500 THEN 2 ELSE 1
    IN  IF r.err # NoErr
        THEN IF r.err.code = 500
             THEN [table |-> r.table, err |-> ErrInternal, logged |-> TRUE, calls |-> n]
             ELSE [table |-> r.table, err |-> r.err, logged |-> FALSE, calls |-> n]
        ELSE [table |-> r.table, err |-> NoErr, logged |-> FALSE, calls |-> n]

SvcDeleteLocation(table, name, fault) ==
    LET r == DeleteLocation(table, name, fault)
    IN  IF r.err # NoErr
        THEN IF r.err.code = 500
             THEN [table |-> r.table, err |-> ErrInternal, logged |-> TRUE, calls |-> 1]
             ELSE [table |-> r.table, err |-> r.err, logged |-> FALSE, calls |-> 1]
        ELSE [table |-> r.table, err |-> NoErr, logged |-> FALSE, calls |-> 1]

\* every repository error answered as ErrInternal
SvcGetNearestLocationAllInternal(table, latitude, longitude, fault) ==
    {IF o.err # NoErr
     THEN [found |-> FALSE, loc |-> NoLocation, distance |-> 0,
           err |-> ErrInternal, logged |-> FALSE, calls |-> 1]
     ELSE [found |-> TRUE, loc |-> o.loc, distance |-> o.distance, err |-> NoErr,
           logged |-> FALSE, calls |-> 1] :
        o \in GetNearestLocation(table, latitude, longitude, fault)}

\* the translation get and delete use: 500 becomes ErrInternal, the rest passes
SvcGetNearestLocationAsGet(table, latitude, longitude, fault) ==
    {IF o.err # NoErr
     THEN IF o.err.code = 500
          THEN [found |-> FALSE, loc |-> NoLocation, distance |-> 0,
                err |-> ErrInternal, logged |-> TRUE, calls |-> 1]
          ELSE [found |-> FALSE, loc |-> NoLocation, distance |-> 0,
                err |-> o.err, logged |-> FALSE, calls |-> 1]
     ELSE [found |-> TRUE, loc |-> o.loc, distance |-> o.distance, err |-> NoErr,
           logged |-> FALSE, calls |-> 1] :
        o \in GetNearestLocation(table, latitude, longitude, fault)}

\* findNearest's answer to one outcome of the repository
NearestResult(o) ==
    IF o.err # NoErr
    THEN IF o.err.code = 404
         THEN [found |-> FALSE, loc |-> NoLocation, distance |-> 0,
               err |-> NewCError(o.err.code, "no location found"), logged |-> FALSE, calls |-> 1]
         ELSE [found |-> FALSE, loc |-> NoLocation, distance |-> 0,
               err |-> ErrInternal, logged |-> FALSE, calls |-> 1]
    ELSE [found |-> TRUE, loc |-> o.loc, distance |-> o.distance, err |-> NoErr,
          logged |-> FALSE, calls |-> 1]

SvcGetNearestLocation(table, latitude, longitude, fault) ==
    {NearestResult(o) : o \in GetNearestLocation(table, latitude, longitude, fault)}

(***************************************************************************)
(* The error body of a response.  handleError answers with the error's     *)
(* code as the status, success false, and the error's message.             *)
(***************************************************************************)
handleError(err) == [status |-> err.code, success |-> FALSE, message |-> err.msg]

\* the characters of the messages the nearest search can be answered with
Spell ==
    ("no location found" :>
         <<"n", "o", " ", "l", "o", "c", "a", "t", "i", "o", "n", " ", "f", "o", "u", "n", "d">>)
    @@ ("data not found" :>
         <<"d", "a", "t", "a", " ", "n", "o", "t", " ", "f", "o", "u", "n", "d">>)
    @@ ("internal error" :>
         <<"i", "n", "t", "e", "r", "n", "a", "l", " ", "e", "r", "r", "o", "r">>)
    @@ ("Invalid latitude" :>
         <<"I", "n", "v", "a", "l", "i", "d", " ", "l", "a", "t", "i", "t", "u", "d", "e">>)
    @@ ("Invalid longitude" :>
         <<"I", "n", "v", "a", "l", "i", "d", " ", "l", "o", "n", "g", "i", "t", "u", "d", "e">>)
    @@ ("Invalid location name" :>
         <<"I", "n", "v", "a", "l", "i", "d", " ", "l", "o", "c", "a", "t", "i", "o", "n", " ", "n", "a", "m", "e">>)

NotFoundText == <<"n", "o", "t", " ", "f", "o", "u", "n", "d">>

\* strings.Contains, on the characters
Contains(s, substr) ==
    \E i \in 1..(Len(s) - Len(substr) + 1) :
        SubSeq(s, i, i + Len(substr) - 1) = substr

(***************************************************************************)
(* RegisterLocationRequest and its validate tags, as the handler checks    *)
(* them: Name required; Latitude required,min=-90,max=90; Longitude        *)
(* required,min=-180,max=180.  `required` fails on the zero value.         *)
(***************************************************************************)
\* the tags without min and max
InvalidFieldsRequiredOnly(request) ==
    {f \in {"Name", "Latitude", "Longitude"} :
        \/ f = "Name" /\ request.name = <<>>
        \/ f = "Latitude" /\ request.latitude = 0
        \/ f = "Longitude" /\ request.longitude = 0}

InvalidFields(request) ==
    {f \in {"Name", "Latitude", "Longitude"} :
        \/ f = "Name" /\ request.name = <<>>
        \/ f = "Latitude" /\ (\/ request.latitude = 0
                              \/ request.latitude < -90
                              \/ request.latitude > 90)
        \/ f = "Longitude" /\ (\/ request.longitude = 0
                               \/ request.longitude < -180
                               \/ request.longitude > 180)}

(***************************************************************************)
(* NearestLocation.MarshalJSON.  A distance is the float64 nearest to       *)
(* meters + millis/1000 meters (0 <= millis < 1000); a rendered number is   *)
(* a count of hundredths.  %.2f rounds the float64 itself: a decimal value  *)
(* halfway between two hundredths is rendered by the side of it on which    *)
(* its float64 lies, and goes to the even hundredth only when the float64   *)
(* is that value exactly.                                                   *)
(***************************************************************************)
RECURSIVE Pow2Mod1000(_)
Pow2Mod1000(k) == IF k = 0 THEN 1 ELSE (2 * Pow2Mod1000(k - 1)) % 1000

\* the greatest e with unit * 2^e <= n (n >= unit)
RECURSIVE Log2Floor(_, _)
Log2Floor(n, unit) == IF 2 * unit <= n THEN 1 + Log2Floor(n, 2 * unit) ELSE 0

\* the least j >= 1 with millis * 2^j >= 1000 (0 < millis < 1000)
RECURSIVE Log2Ceil1000(_)
Log2Ceil1000(millis) ==
    IF 2 * millis >= 1000 THEN 1 ELSE 1 + Log2Ceil1000(2 * millis)

\* where the float64 nearest to v = w + thousandths/1000 lies, its binary
\* exponent being e: the 53-bit significand is v * 2^(52 - e) rounded to a
\* whole number, and the part cut off is (thousandths * 2^(52 - e) mod 1000)
\* thousandths: none, the float64 is v (0); less than a half, it is below
\* v (-1); more, above (1)
Float64Side(thousandths, e) ==
    LET r == (thousandths * Pow2Mod1000(52 - e)) % 1000
    IN  IF r = 0 THEN 0 ELSE IF r < 500 THEN -1 ELSE 1

\* the float64 n.Distance against meters + millis/1000
DistanceSide(meters, millis) ==
    IF meters >= 1 THEN Float64Side(millis, Log2Floor(meters, 1))
    ELSE IF millis > 0 THEN Float64Side(millis, 0 - Log2Ceil1000(millis))
    ELSE 0

\* the float64 n.Distance/1000 against meters/1000, for a whole n.Distance
QuotientSide(meters) == Float64Side(meters % 1000, Log2Floor(meters, 1000))

\* the nearest count to q + rem/(2 * half); at the decimal tie the side of
\* the float64 decides, and an exact tie goes to the even count
RoundHalfEven(q, rem, half, side) ==
    IF rem > half THEN q + 1
    ELSE IF rem < half THEN q
    ELSE IF side > 0 THEN q + 1
    ELSE IF side < 0 THEN q
    ELSE IF q % 2 = 0 THEN q ELSE q + 1

\* fmt.Sprintf("%.2f", x) for x = hundredths / 100
Sprintf2(hundredths) ==
    ToString(hundredths \div 100) \o "." \o ToString((hundredths % 100) \div 10)
        \o ToString(hundredths % 10)

\* if n.Distance > 1000
DistanceValueStrict(meters, millis) ==
    IF meters > 1000 \/ (meters = 1000 /\ millis > 0)
    THEN [hundredths |-> RoundHalfEven(meters \div 10, (meters % 10) * 1000 + millis,
                                       5000, QuotientSide(meters)),
          unit |-> "kilometers"]
    ELSE [hundredths |-> RoundHalfEven(meters * 100 + millis \div 10, millis % 10, 5,
                                       DistanceSide(meters, millis)),
          unit |-> "meters"]

\* the number and the unit MarshalJSON renders
DistanceValue(meters, millis) ==
    IF meters >= 1000
    THEN [hundredths |-> RoundHalfEven(meters \div 10, (meters % 10) * 1000 + millis,
                                       5000, QuotientSide(meters)),
          unit |-> "kilometers"]
    ELSE [hundredths |-> RoundHalfEven(meters * 100 + millis \div 10, millis % 10, 5,
                                       DistanceSide(meters, millis)),
          unit |-> "meters"]

FormatDistance(meters, millis) ==
    Sprintf2(DistanceValue(meters, millis).hundredths) \o " "
        \o DistanceValue(meters, millis).unit

(***************************************************************************)
(* State.  rows: the locations table.  nextId: the next fresh id the table *)
(* default assigns.  clock: the engine's now().  last: the latest request  *)
(* a handler answered and its answer (affected: the rows the DELETE        *)
(* removed, which the repository discards).  pc, req, resp: the register   *)
(* requests in flight, one per worker.                                     *)
(***************************************************************************)
NoResult ==
    [op |-> "none", invalid |-> {}, err |-> NoErr, found |-> FALSE,
     loc |-> NoLocation, distance |-> 0, locations |-> NilSlice, affected |-> 0,
     millis |-> 0, text |-> "", called |-> FALSE, calls |-> 0, logged |-> FALSE]

NoRequest ==
    [name |-> <<>>, latitude |-> 0, longitude |-> 0, nameHeld |-> FALSE,
     slugHeld |-> FALSE]

NoResponse == [found |-> FALSE, loc |-> NoLocation, err |-> NoErr]

Init ==
    /\ rows = {}
    /\ nextId = 1
    /\ clock = 0
    /\ last = NoResult
    /\ pc = [p \in Procs |-> "idle"]
    /\ req = [p \in Procs |-> NoRequest]
    /\ resp = [p \in Procs |-> NoResponse]

\* The body of a POST, as json.NewDecoder(r.Body).Decode(&req) sees it: text
\* that is no JSON value (empty and truncated bodies included), the value
\* null, an array, or an object whose members name, latitude and longitude
\* are absent, null, a string or a number
JsonAbsent == [kind |-> "absent", str |-> <<>>, num |-> 0]
JsonNull == [kind |-> "null", str |-> <<>>, num |-> 0]
JsonString(s) == [kind |-> "string", str |-> s, num |-> 0]
JsonNumber(n) == [kind |-> "number", str |-> <<>>, num |-> n]
JsonObject(name, latitude, longitude) ==
    [top |-> "object", name |-> name, latitude |-> latitude, longitude |-> longitude]
NotJson ==
    [top |-> "invalid", name |-> JsonAbsent, latitude |-> JsonAbsent,
     longitude |-> JsonAbsent]
JsonNullBody == [NotJson EXCEPT !.top = "null"]
JsonArrayBody == [NotJson EXCEPT !.top = "array"]

\* the body a client writes for a request
JsonBody(request) ==
    JsonObject(JsonString(request.name), JsonNumber(request.latitude),
               JsonNumber(request.longitude))

\* Decode into a RegisterLocationRequest: null leaves the zero request; an
\* object sets the members it carries, an absent or null member leaving the
\* zero value; a string for a float64, a number for a string, a value that
\* is no object and a text that is no JSON are errors
Decode(body) ==
    LET zero == [name |-> <<>>, latitude |-> 0, longitude |-> 0]
    IN  IF body.top = "null" THEN [err |-> FALSE, req |-> zero]
        ELSE IF \/ body.top # "object"
                \/ body.name.kind = "number"
                \/ body.latitude.kind = "string"
                \/ body.longitude.kind = "string"
        THEN [err |-> TRUE, req |-> zero]
        ELSE [err |-> FALSE,
              req |-> [name |-> IF body.name.kind = "string"
                                THEN body.name.str ELSE <<>>,
                       latitude |-> IF body.latitude.kind = "number"
                                    THEN body.latitude.num ELSE 0,
                       longitude |-> IF body.longitude.kind = "number"
                                     THEN body.longitude.num ELSE 0]]

\* the bodies offered to register: those of RegRequests, and bodies that are
\* no JSON, no object, carry a member of the wrong type or lack one
RegBodies ==
    {JsonBody(rq) : rq \in RegRequests}
    \cup {NotJson, JsonNullBody, JsonArrayBody,
          JsonObject(JsonString(NameA_b),
                     JsonString(<<"n", "o", "r", "t", "h">>), JsonNumber(90)),
          JsonObject(JsonNumber(5), JsonNumber(45), JsonNumber(90)),
          JsonObject(JsonString(NameAb), JsonAbsent, JsonNumber(90)),
          JsonObject(JsonString(NameAb), JsonNumber(45), JsonNull)}

\* LocationHandler.RegisterLocation: decode (a failure is logged and answered
\* with ErrInternal), validate, then the service (called: the service was
\* invoked)
RegisterLocationResponse(table, body, id, now, fault) ==
    LET d == Decode(body)
        request == d.req
        r == RegisterLocation(table, request, id, now, fault)
    IN  IF d.err
        THEN [table |-> table, called |-> FALSE, invalid |-> {},
              err |-> ErrInternal, found |-> FALSE,
              loc |-> NoLocation, calls |-> 0, logged |-> TRUE]
        ELSE IF InvalidFields(request) # {}
        THEN [table |-> table, called |-> FALSE, invalid |-> InvalidFields(request),
              err |-> NewBadRequestCError("validation error"), found |-> FALSE,
              loc |-> NoLocation, calls |-> 0, logged |-> FALSE]
        ELSE [table |-> r.table, called |-> TRUE, invalid |-> {}, err |-> r.err,
              found |-> r.found, loc |-> r.loc, calls |-> r.calls,
              logged |-> r.logged]

\* a table that hands out the least id no stored row carries, so that the id
\* of a deleted row is given again
HandleRegisterLocationReusesId(body, fault) ==
    LET free == {i \in 1..(MaxId + 1) : \A r \in rows : r.id # i}
        id   == CHOOSE i \in free : \A j \in free : i <= j
        h == RegisterLocationResponse(rows, body, id, clock, fault)
    IN  /\ nextId <= MaxId \/ h.table = rows
        /\ rows' = h.table
        /\ nextId' = IF h.table # rows THEN nextId + 1 ELSE nextId
        /\ last' = [NoResult EXCEPT !.op = "register", !.invalid = h.invalid,
                                    !.err = h.err, !.found = h.found, !.loc = h.loc,
                                    !.called = h.called, !.calls = h.calls,
                                    !.logged = h.logged]
        /\ UNCHANGED <<clock, pc, req, resp>>

\* the handler's step for its answer h
RegisterLocationStep(h) ==
    /\ nextId <= MaxId \/ h.table = rows
    /\ rows' = h.table
    /\ nextId' = IF h.table # rows THEN nextId + 1 ELSE nextId
    /\ last' = [NoResult EXCEPT !.op = "register", !.invalid = h.invalid,
                                !.err = h.err, !.found = h.found, !.loc = h.loc,
                                !.called = h.called, !.calls = h.calls,
                                !.logged = h.logged]
    /\ UNCHANGED <<clock, pc, req, resp>>

\* LocationHandler.RegisterLocation
HandleRegisterLocation(body, fault) ==
    RegisterLocationStep(RegisterLocationResponse(rows, body, nextId, clock, fault))

\* LocationHandler.GetLocation as a function of the table and the request: the
\* possible answers, and whether the service was called
GetLocationResponse(table, name, fault) ==
    IF name = <<>>
    THEN {[called |-> FALSE, found |-> FALSE, loc |-> NoLocation,
           err |-> NewBadRequestCError("Invalid location name"),
           calls |-> 0, logged |-> FALSE]}
    ELSE {[called |-> TRUE, found |-> o.found, loc |-> o.loc, err |-> o.err,
           calls |-> o.calls, logged |-> o.logged] :
             o \in GetLocation(table, name, fault)}

HandleGetLocation(name, fault) ==
    /\ \E h \in GetLocationResponse(rows, name, fault) :
           last' = [NoResult EXCEPT !.op = "get",
                                    !.err = h.err, !.found = h.found,
                                    !.loc = h.loc, !.called = h.called,
                                    !.calls = h.calls, !.logged = h.logged]
    /\ UNCHANGED <<rows, nextId, clock, pc, req, resp>>

\* LocationHandler.ListLocations
HandleListLocations(fault) ==
    /\ \E o \in SvcListLocations(rows, fault) :
           last' = [NoResult EXCEPT !.op = "list", !.err = o.err,
                                    !.locations = o.locations, !.called = TRUE,
                                    !.calls = o.calls, !.logged = o.logged]
    /\ UNCHANGED <<rows, nextId, clock, pc, req, resp>>

\* LocationHandler.DeleteLocation as a function of the table and the request
DeleteLocationResponse(table, name, fault) ==
    LET r == SvcDeleteLocation(table, name, fault)
    IN  IF name = <<>>
        THEN [table |-> table, called |-> FALSE,
              err |-> NewBadRequestCError("Invalid location name"),
              calls |-> 0, logged |-> FALSE]
        ELSE [table |-> r.table, called |-> TRUE, err |-> r.err,
              calls |-> r.calls, logged |-> r.logged]

\* LocationHandler.DeleteLocation
HandleDeleteLocation(name, fault) ==
    LET h == DeleteLocationResponse(rows, name, fault)
    IN  /\ rows' = h.table
        /\ last' = [NoResult EXCEPT !.op = "delete",
                            !.err = h.err,
                            !.affected = Cardinality(rows \ h.table),
                            !.called = h.called, !.calls = h.calls,
                            !.logged = h.logged]
        /\ UNCHANGED <<nextId, clock, pc, req, resp>>

(***************************************************************************)
(* strconv.ParseFloat(s, 64), on a text given character by character.  The *)
(* value is the float64 nearest to the number the text denotes, a half     *)
(* going to the even neighbour: bits * 2^exp2 with its sign, the bits of   *)
(* the significand greatest first, without leading and trailing zeros (53  *)
(* at most); or an infinity; or NaN.  Two texts of one float64 have one    *)
(* value.                                                                  *)
(***************************************************************************)
Digits == {"0", "1", "2", "3", "4", "5", "6", "7", "8", "9"}
DigitValue ==
    ("0" :> 0) @@ ("1" :> 1) @@ ("2" :> 2) @@ ("3" :> 3) @@ ("4" :> 4) @@
    ("5" :> 5) @@ ("6" :> 6) @@ ("7" :> 7) @@ ("8" :> 8) @@ ("9" :> 9)
HexLetters == {"a", "b", "c", "d", "e", "f"}
HexDigitValue ==
    DigitValue @@ ("a" :> 10) @@ ("b" :> 11) @@ ("c" :> 12) @@ ("d" :> 13) @@
    ("e" :> 14) @@ ("f" :> 15)

UpperToLower ==
    ("A" :> "a") @@ ("B" :> "b") @@ ("C" :> "c") @@ ("D" :> "d") @@ ("E" :> "e") @@
    ("F" :> "f") @@ ("G" :> "g") @@ ("H" :> "h") @@ ("I" :> "i") @@ ("J" :> "j") @@
    ("K" :> "k") @@ ("L" :> "l") @@ ("M" :> "m") @@ ("N" :> "n") @@ ("O" :> "o") @@
    ("P" :> "p") @@ ("Q" :> "q") @@ ("R" :> "r") @@ ("S" :> "s") @@ ("T" :> "t") @@
    ("U" :> "u") @@ ("V" :> "v") @@ ("W" :> "w") @@ ("X" :> "x") @@ ("Y" :> "y") @@
    ("Z" :> "z")
LowerCase(c) == IF c \in DOMAIN UpperToLower THEN UpperToLower[c] ELSE c
MapLowerCase(s) == [i \in 1..Len(s) |-> LowerCase(s[i])]

FloatZero == [kind |-> "number", neg |-> FALSE, bits |-> <<>>, exp2 |-> 0]
FloatInf(neg) == [kind |-> "inf", neg |-> neg, bits |-> <<>>, exp2 |-> 0]
FloatNaN == [kind |-> "nan", neg |-> FALSE, bits |-> <<>>, exp2 |-> 0]

\* special: "inf" and "infinity" with an optional sign, "nan" without one,
\* in any case of the letters
IsInfText(s) ==
    MapLowerCase(s) \in {<<"i", "n", "f">>, <<"i", "n", "f", "i", "n", "i", "t", "y">>}

Special(s) ==
    IF s = <<>> THEN [ok |-> FALSE, value |-> FloatZero]
    ELSE IF s[1] \in {"+", "-"}
    THEN [ok |-> IsInfText(Tail(s)), value |-> FloatInf(s[1] = "-")]
    ELSE IF IsInfText(s) THEN [ok |-> TRUE, value |-> FloatInf(FALSE)]
    ELSE [ok |-> MapLowerCase(s) = <<"n", "a", "n">>, value |-> FloatNaN]

\* readFloat, the mantissa: from s[i] on, digits (hex digits after 0x),
\* underscores and one point; the index after its last character
RECURSIVE MantissaEnd(_, _, _, _)
MantissaEnd(s, i, hex, sawdot) ==
    IF i > Len(s) THEN i
    ELSE IF s[i] = "."
    THEN IF sawdot THEN i ELSE MantissaEnd(s, i + 1, hex, TRUE)
    ELSE IF \/ s[i] = "_"
            \/ s[i] \in Digits
            \/ hex /\ LowerCase(s[i]) \in HexLetters
    THEN MantissaEnd(s, i + 1, hex, sawdot)
    ELSE i

\* readFloat, the exponent: digits and underscores; the index after the last
RECURSIVE ExponentEnd(_, _)
ExponentEnd(s, i) ==
    IF i <= Len(s) /\ (s[i] \in Digits \/ s[i] = "_")
    THEN ExponentEnd(s, i + 1) ELSE i

\* if e < 10000 { e = e*10 + digit }
RECURSIVE ExponentValue(_, _)
ExponentValue(s, e) ==
    IF s = <<>> THEN e
    ELSE IF Head(s) = "_" THEN ExponentValue(Tail(s), e)
    ELSE ExponentValue(Tail(s), IF e < 10000 THEN e * 10 + DigitValue[Head(s)] ELSE e)

\* underscoreOK: after the sign and a base prefix, an underscore stands
\* between two digits, or between the base prefix and a digit
RECURSIVE UnderscoreScan(_, _, _)
UnderscoreScan(s, hex, before) ==
    IF s = <<>> THEN before # "_"
    ELSE IF Head(s) \in Digits \/ (hex /\ LowerCase(Head(s)) \in HexLetters)
    THEN UnderscoreScan(Tail(s), hex, "0")
    ELSE IF Head(s) = "_"
    THEN before = "0" /\ UnderscoreScan(Tail(s), hex, "_")
    ELSE before # "_" /\ UnderscoreScan(Tail(s), hex, "!")

UnderscoreOK(s) ==
    LET t == IF s # <<>> /\ s[1] \in {"+", "-"} THEN Tail(s) ELSE s
        prefixed == Len(t) >= 2 /\ t[1] = "0" /\ LowerCase(t[2]) \in {"b", "o", "x"}
    IN  IF prefixed
        THEN UnderscoreScan(SubSeq(t, 3, Len(t)), LowerCase(t[2]) = "x", "0")
        ELSE UnderscoreScan(t, FALSE, "^")

\* readFloat gives up
ReadFailed ==
    [ok |-> FALSE, n |-> 0, neg |-> FALSE, hex |-> FALSE, mant |-> <<>>, point |-> 0,
     e |-> 0]

IsMantissaDigit(c) == c # "_" /\ c # "."

\* the values of the digits of the mantissa text seg
MantissaDigits(seg) ==
    [k \in 1..Len(seg) |-> HexDigitValue[LowerCase(seg[k])]]

\* the count of digits after the point of the mantissa text seg
DigitsAfterPoint(seg) ==
    IF \E k \in 1..Len(seg) : seg[k] = "."
    THEN Len(SelectSeq(SubSeq(seg, (CHOOSE k \in 1..Len(seg) : seg[k] = ".") + 1,
                              Len(seg)),
                       IsMantissaDigit))
    ELSE 0

\* readFloat, its end: n characters were read
ReadEnd(s, neg, hex, mant, point, e, n) ==
    IF (\E k \in 1..n : s[k] = "_") /\ ~UnderscoreOK(SubSeq(s, 1, n)) THEN ReadFailed
    ELSE [ok |-> TRUE, n |-> n, neg |-> neg, hex |-> hex, mant |-> mant,
          point |-> point, e |-> e]

\* readFloat, the exponent digits from s[e0] to s[e1 - 1], of sign esign
ReadExponentDigits(s, neg, hex, mant, point, e0, e1, esign) ==
    ReadEnd(s, neg, hex, mant, point,
            esign * ExponentValue(SubSeq(s, e0, e1 - 1), 0), e1 - 1)

\* readFloat, after the exponent character s[j]
ReadExponent(s, neg, hex, mant, point, j, esigned) ==
    IF (IF esigned THEN j + 2 ELSE j + 1) <= Len(s)
       /\ s[IF esigned THEN j + 2 ELSE j + 1] \in Digits
    THEN ReadExponentDigits(s, neg, hex, mant, point,
                            IF esigned THEN j + 2 ELSE j + 1,
                            ExponentEnd(s, IF esigned THEN j + 2 ELSE j + 1),
                            IF esigned /\ s[j + 1] = "-" THEN -1 ELSE 1)
    ELSE ReadFailed

\* readFloat, after the mantissa, which ends before s[j]
ReadAfterMantissa(s, neg, hex, mant, point, j) ==
    IF mant = <<>> THEN ReadFailed
    ELSE IF j <= Len(s) /\ LowerCase(s[j]) = (IF hex THEN "p" ELSE "e")
    THEN ReadExponent(s, neg, hex, mant, point, j,
                      j + 1 <= Len(s) /\ s[j + 1] \in {"+", "-"})
    ELSE IF hex THEN ReadFailed
    ELSE ReadEnd(s, neg, hex, mant, point, 0, j - 1)

\* readFloat, the mantissa text seg, which ends before s[j]
ReadMantissa(s, neg, hex, seg, j) ==
    ReadAfterMantissa(s, neg, hex, MantissaDigits(SelectSeq(seg, IsMantissaDigit)),
                      0 - (IF hex THEN 4 * DigitsAfterPoint(seg)
                           ELSE DigitsAfterPoint(seg)),
                      j)

\* readFloat, from the first character of the mantissa s[i1]
ReadFromBase(s, neg, hex, i1, j) == ReadMantissa(s, neg, hex, SubSeq(s, i1, j - 1), j)

\* readFloat, after the sign: the base prefix 0x when three characters at
\* least are left
ReadFromSign(s, neg, i0, hex) ==
    ReadFromBase(s, neg, hex, IF hex THEN i0 + 2 ELSE i0,
                 MantissaEnd(s, IF hex THEN i0 + 2 ELSE i0, hex, FALSE))

ReadSigned(s, neg, i0) ==
    ReadFromSign(s, neg, i0,
                 i0 + 2 <= Len(s) /\ s[i0] = "0" /\ LowerCase(s[i0 + 1]) = "x")

\* readFloat: sign, mantissa and exponent of the longest prefix of s that is
\* a number.  n: the characters read; mant: the digits of the mantissa;
\* point: minus the count of digits (bits, for 0x) after the point; e: the
\* exponent
ReadFloat(s) ==
    IF s = <<>> THEN ReadFailed
    ELSE IF s[1] \in {"+", "-"} THEN ReadSigned(s, s[1] = "-", 2)
    ELSE ReadSigned(s, FALSE, 1)

StripLeadingZeros(d) ==
    LET nz == {k \in 1..Len(d) : d[k] # 0}
    IN  IF nz = {} THEN <<>>
        ELSE SubSeq(d, CHOOSE k \in nz : \A l \in nz : k <= l, Len(d))

TrailingZeros(d) ==
    LET nz == {k \in 1..Len(d) : d[k] # 0}
    IN  IF nz = {} THEN Len(d)
        ELSE Len(d) - (CHOOSE k \in nz : \A l \in nz : k >= l)

(***************************************************************************)
(* Whole numbers of any size, as their decimal digits, greatest first,     *)
(* multiplied and divided by a number m below 2^27 a half at a time.       *)
(***************************************************************************)
RECURSIVE MulPlaces(_, _, _)
MulJoin(hi, lo) == [digits |-> hi.digits \o lo.digits, carry |-> hi.carry]

\* the low half is multiplied first, for its carry
MulHigh(d, m, h, lo) ==
    IF lo.carry < 0 THEN lo ELSE MulJoin(MulPlaces(SubSeq(d, 1, h), m, lo.carry), lo)

\* the digits of d * m + carry that stand in the places of d, and the carry
\* out of them
MulPlaces(d, m, carry) ==
    IF d = <<>> THEN [digits |-> <<>>, carry |-> carry]
    ELSE IF Len(d) = 1
    THEN [digits |-> <<(d[1] * m + carry) % 10>>, carry |-> (d[1] * m + carry) \div 10]
    ELSE MulHigh(d, m, Len(d) \div 2,
                 MulPlaces(SubSeq(d, Len(d) \div 2 + 1, Len(d)), m, carry))

RECURSIVE DigitsOf(_)
DigitsOf(n) == IF n = 0 THEN <<>> ELSE DigitsOf(n \div 10) \o <<n % 10>>

MulCarry(p) == DigitsOf(p.carry) \o p.digits

\* d * m
Times(d, m) == MulCarry(MulPlaces(d, m, 0))

RECURSIVE DivPlaces(_, _, _)
DivJoin(hi, lo) == [digits |-> hi.digits \o lo.digits, rem |-> lo.rem]

\* the high half is divided first, for its remainder
DivLow(d, m, h, hi) ==
    IF hi.rem < 0 THEN hi ELSE DivJoin(hi, DivPlaces(SubSeq(d, h + 1, Len(d)), m, hi.rem))

\* the digits of the quotient of (rem * 10^Len(d) + d) by m, and its remainder
DivPlaces(d, m, rem) ==
    IF d = <<>> THEN [digits |-> <<>>, rem |-> rem]
    ELSE IF Len(d) = 1
    THEN [digits |-> <<(rem * 10 + d[1]) \div m>>, rem |-> (rem * 10 + d[1]) % m]
    ELSE DivLow(d, m, Len(d) \div 2, DivPlaces(SubSeq(d, 1, Len(d) \div 2), m, rem))

\* d * 2^k
RECURSIVE TimesPow2(_, _)
TimesPow2(d, k) ==
    IF k = 0 \/ d = <<>> THEN d
    ELSE IF k >= 27 THEN TimesPow2(Times(d, 2 ^ 27), k - 27)
    ELSE Times(d, 2 ^ k)

\* d * 5^k
RECURSIVE TimesPow5(_, _)
TimesPow5(d, k) ==
    IF k = 0 \/ d = <<>> THEN d
    ELSE IF k >= 11 THEN TimesPow5(Times(d, 5 ^ 11), k - 11)
    ELSE Times(d, 5 ^ k)

\* the quotient of d by 5^n, and whether the division left a remainder
RECURSIVE DivPow5(_, _, _)
DivPow5Next(r, n, inexact) ==
    DivPow5(StripLeadingZeros(r.digits), n, inexact \/ r.rem # 0)

DivPow5(d, n, inexact) ==
    IF n = 0 \/ d = <<>> THEN [digits |-> d, inexact |-> inexact]
    ELSE IF n >= 11 THEN DivPow5Next(DivPlaces(d, 5 ^ 11, 0), n - 11, inexact)
    ELSE DivPow5Next(DivPlaces(d, 5 ^ n, 0), 0, inexact)

\* the 27 bits of a number below 2^27
Bits27(n) == [i \in 1..27 |-> (n \div (2 ^ (27 - i))) % 2]

\* 27 bits of d for each division by 2^27, greatest first
RECURSIVE Chunks27(_)
Chunks27Next(r) == Chunks27(StripLeadingZeros(r.digits)) \o Bits27(r.rem)

Chunks27(d) == IF d = <<>> THEN <<>> ELSE Chunks27Next(DivPlaces(d, 2 ^ 27, 0))

\* the bits of d, greatest first, without leading zeros
BitsOf(d) == StripLeadingZeros(Chunks27(d))

\* the bits of the hex digits, without leading zeros
HexBits(h) ==
    StripLeadingZeros([k \in 1..(4 * Len(h)) |->
                          (h[(k + 3) \div 4] \div (2 ^ ((4 - (k % 4)) % 4))) % 2])

(***************************************************************************)
(* The rounding to a float64: 53 bits at most, none below 2^-1074, a half  *)
(* to the even neighbour; 2^1024 and more is out of range.                 *)
(***************************************************************************)
\* bits + 1
Increment(bits) ==
    LET zeros == {k \in 1..Len(bits) : bits[k] = 0}
    IN  IF zeros = {} THEN <<1>> \o [k \in 1..Len(bits) |-> 0]
        ELSE [k \in 1..Len(bits) |->
                 IF k < (CHOOSE z \in zeros : \A y \in zeros : y <= z) THEN bits[k]
                 ELSE IF bits[k] = 0 THEN 1 ELSE 0]

\* the float64 bits * 2^exp2, without leading and trailing zero bits; an
\* infinity and a range error from 2^1024 on
Float64Of(neg, bits, exp2) ==
    IF StripLeadingZeros(bits) = <<>>
    THEN [range |-> FALSE, value |-> [FloatZero EXCEPT !.neg = neg]]
    ELSE IF Len(StripLeadingZeros(bits)) + exp2 > 1024
    THEN [range |-> TRUE, value |-> FloatInf(neg)]
    ELSE [range |-> FALSE,
          value |-> [kind |-> "number", neg |-> neg,
                     bits |-> SubSeq(StripLeadingZeros(bits), 1,
                                     Len(StripLeadingZeros(bits)) - TrailingZeros(bits)),
                     exp2 |-> exp2 + TrailingZeros(bits)]]

\* the first keep bits of bits are kept and the rest rounds them
RoundKept(neg, bits, exp2, inexact, keep) ==
    IF /\ bits[keep + 1] = 1
       /\ \/ inexact
          \/ \E k \in (keep + 2)..Len(bits) : bits[k] = 1
          \/ keep > 0 /\ bits[keep] = 1
    THEN Float64Of(neg, Increment(SubSeq(bits, 1, keep)), exp2 + Len(bits) - keep)
    ELSE Float64Of(neg, SubSeq(bits, 1, keep), exp2 + Len(bits) - keep)

\* the float64 nearest to the number between bits * 2^exp2 and
\* (bits + 1) * 2^exp2: the number is bits * 2^exp2 unless inexact.  bits has
\* no leading zero, and 55 bits at least when inexact
RoundToFloat64(neg, bits, exp2, inexact) ==
    IF bits = <<>> THEN Float64Of(neg, bits, exp2)
    ELSE IF Len(bits) + exp2 > 1024 THEN [range |-> TRUE, value |-> FloatInf(neg)]
    ELSE IF Len(bits) + exp2 + 1074 < 0
    THEN [range |-> FALSE, value |-> [FloatZero EXCEPT !.neg = neg]]
    ELSE IF Len(bits) <= Min(53, Len(bits) + exp2 + 1074)
    THEN Float64Of(neg, bits, exp2)
    ELSE RoundKept(neg, bits, exp2, inexact, Min(53, Len(bits) + exp2 + 1074))

\* atofHex: mant * 2^b for hex digits mant
HexValue(neg, mant, b) == RoundToFloat64(neg, HexBits(mant), b, FALSE)

\* the quotient q of d * 2^k by 5^n stands for d * 10^(-n)
DecimalQuotient(neg, q, exp2) ==
    RoundToFloat64(neg, BitsOf(q.digits), exp2, q.inexact)

\* d * 10^exp10 for decimal digits d without leading and trailing zeros: 0
\* below 10^-330, out of range from 10^310 on.  A number with a fraction is
\* divided after a scaling by 2^k that leaves 55 bits and more
DecimalNormal(neg, d, exp10) ==
    IF d = <<>> THEN [range |-> FALSE, value |-> [FloatZero EXCEPT !.neg = neg]]
    ELSE IF Len(d) + exp10 > 310 THEN [range |-> TRUE, value |-> FloatInf(neg)]
    ELSE IF Len(d) + exp10 < -330
    THEN [range |-> FALSE, value |-> [FloatZero EXCEPT !.neg = neg]]
    ELSE IF exp10 >= 0
    THEN RoundToFloat64(neg, BitsOf(TimesPow5(d, exp10)), exp10, FALSE)
    ELSE DecimalQuotient(neg,
                         DivPow5(TimesPow2(d, 55 + (7 * (0 - exp10) + 2) \div 3),
                                 0 - exp10, FALSE),
                         exp10 - (55 + (7 * (0 - exp10) + 2) \div 3))

DecimalStripped(neg, d, exp10) ==
    DecimalNormal(neg, SubSeq(d, 1, Len(d) - TrailingZeros(d)),
                  exp10 + TrailingZeros(d))

\* atof64: mant * 10^exp10 for decimal digits mant
DecimalValue(neg, mant, exp10) == DecimalStripped(neg, StripLeadingZeros(mant), exp10)

\* value and error of the conversion
FloatAnswer(fv) ==
    IF fv.range THEN [err |-> TRUE, cause |-> "range", value |-> fv.value]
    ELSE [err |-> FALSE, cause |-> "", value |-> fv.value]

\* the answer of ParseFloat from those of special and readFloat
ParseFrom(s, sp, rf) ==
    IF sp.ok THEN [err |-> FALSE, cause |-> "", value |-> sp.value]
    ELSE IF ~rf.ok \/ rf.n # Len(s)
    THEN [err |-> TRUE, cause |-> "syntax", value |-> FloatZero]
    ELSE IF rf.hex
    THEN FloatAnswer(HexValue(rf.neg, rf.mant, rf.point + rf.e))
    ELSE FloatAnswer(DecimalValue(rf.neg, rf.mant, rf.point + rf.e))

\* ParseFloat of the texts the requests carry, converted once
ParsedTexts == [s \in RawLats \cup RawLons |-> ParseFrom(s, Special(s), ReadFloat(s))]

ParseFloat(s) ==
    IF s \in DOMAIN ParsedTexts THEN ParsedTexts[s]
    ELSE ParseFrom(s, Special(s), ReadFloat(s))

(***************************************************************************)
(* The float64 arguments of GetNearestLocation.  The distance table covers *)
(* the points whose coordinates are whole multiples of 45 degrees; for any *)
(* other point the store computes a distance the table does not hold.      *)
(***************************************************************************)
ChartLats == {-90, -45, 0, 45, 90}
ChartLons == {-180, -135, -90, -45, 0, 45, 90, 135, 180}

RECURSIVE BitsToInt(_, _)
BitsToInt(b, acc) == IF b = <<>> THEN acc ELSE BitsToInt(Tail(b), 2 * acc + Head(b))

\* a number without a fraction, below 1024
IsWhole(v) == v.kind = "number" /\ v.exp2 >= 0 /\ Len(v.bits) + v.exp2 <= 10

WholeValue(v) ==
    LET n == BitsToInt(v.bits, 0) * (2 ^ v.exp2) IN IF v.neg THEN 0 - n ELSE n

IsCharted(latitude, longitude) ==
    /\ IsWhole(latitude) /\ WholeValue(latitude) \in ChartLats
    /\ IsWhole(longitude) /\ WholeValue(longitude) \in ChartLons

\* |v| <= bound, for a bound below 1024
MagnitudeAtMost(v, bound) ==
    LET c == Len(v.bits) + v.exp2
        whole == IF c <= 0 THEN 0
                 ELSE BitsToInt(SubSeq(v.bits, 1, Min(c, Len(v.bits))), 0)
                          * (2 ^ Max(0, v.exp2))
    IN  /\ v.kind = "number"
        /\ c <= 10
        /\ whole < bound \/ (whole = bound /\ v.exp2 >= 0)

\* a point a geography can hold as it is given
IsGeodetic(latitude, longitude) ==
    MagnitudeAtMost(latitude, 90) /\ MagnitudeAtMost(longitude, 180)

\* the distances the store may compute for a point outside the table
UnchartedDistances == {1234, 4984944}

\* LocationRepository.GetNearestLocation for a point outside the distance
\* table: the row the store finds nearest, at the distance it computes; for
\* a point no geography holds as given (an infinity, NaN, a latitude beyond
\* 90 or a longitude beyond 180) the store either coerces it or fails
GetNearestLocationUncharted(table, geodetic, fault) ==
    IF fault # "none"
    THEN {[found |-> FALSE, loc |-> NoLocation, distance |-> 0,
           err |-> NewInternalCError(StorageError(fault).text)]}
    ELSE (IF geodetic THEN {}
          ELSE {[found |-> FALSE, loc |-> NoLocation, distance |-> 0,
                 err |-> NewInternalCError(PgOtherError.text)]})
         \cup
         (IF table = {}
          THEN {[found |-> FALSE, loc |-> NoLocation, distance |-> 0,
                 err |-> ErrDataNotFound]}
          ELSE {[found |-> TRUE, loc |-> ScanLocation(r), distance |-> d,
                 err |-> NoErr] : r \in table, d \in UnchartedDistances})

\* LocationService.GetNearestLocation on float64 arguments
SvcGetNearestLocationFloat(table, latitude, longitude, fault) ==
    IF IsCharted(latitude, longitude)
    THEN SvcGetNearestLocation(table, WholeValue(latitude), WholeValue(longitude),
                               fault)
    ELSE {NearestResult(o) :
             o \in GetNearestLocationUncharted(table,
                                               IsGeodetic(latitude, longitude),
                                               fault)}

\* the answer of the handler from the two parses, lng checked ahead of lat
NearestAnswerLngFirst(table, latitude, longitude, fault) ==
    IF longitude.err
    THEN {[called |-> FALSE, found |-> FALSE, loc |-> NoLocation, distance |-> 0,
           err |-> NewBadRequestCError("Invalid longitude"),
           calls |-> 0, logged |-> FALSE]}
    ELSE IF latitude.err
    THEN {[called |-> FALSE, found |-> FALSE, loc |-> NoLocation, distance |-> 0,
           err |-> NewBadRequestCError("Invalid latitude"),
           calls |-> 0, logged |-> FALSE]}
    ELSE {[called |-> TRUE, found |-> o.found, loc |-> o.loc,
           distance |-> o.distance, err |-> o.err, calls |-> o.calls,
           logged |-> o.logged] :
             o \in SvcGetNearestLocationFloat(table, latitude.value, longitude.value,
                                              fault)}

GetNearestLocationResponseLngFirst(table, lat, lng, fault) ==
    NearestAnswerLngFirst(table, ParseFloat(lat), ParseFloat(lng), fault)

\* the answer of the handler from the two parses: lat is checked, then lng,
\* then the service is called
NearestAnswer(table, latitude, longitude, fault) ==
    IF latitude.err
    THEN {[called |-> FALSE, found |-> FALSE, loc |-> NoLocation, distance |-> 0,
           err |-> NewBadRequestCError("Invalid latitude"),
           calls |-> 0, logged |-> FALSE]}
    ELSE IF longitude.err
    THEN {[called |-> FALSE, found |-> FALSE, loc |-> NoLocation, distance |-> 0,
           err |-> NewBadRequestCError("Invalid longitude"),
           calls |-> 0, logged |-> FALSE]}
    ELSE {[called |-> TRUE, found |-> o.found, loc |-> o.loc,
           distance |-> o.distance, err |-> o.err, calls |-> o.calls,
           logged |-> o.logged] :
             o \in SvcGetNearestLocationFloat(table, latitude.value, longitude.value,
                                              fault)}

\* LocationHandler.GetNearestLocation as a function of the table and the
\* request: the possible answers, and whether the service was called
GetNearestLocationResponse(table, lat, lng, fault) ==
    NearestAnswer(table, ParseFloat(lat), ParseFloat(lng), fault)

\* LocationHandler.GetNearestLocation
HandleGetNearestLocation(lat, lng, fault) ==
    /\ \E h \in GetNearestLocationResponse(rows, lat, lng, fault) :
           last' = [NoResult EXCEPT !.op = "nearest", !.err = h.err,
                                    !.found = h.found, !.loc = h.loc,
                                    !.distance = h.distance, !.called = h.called,
                                    !.calls = h.calls, !.logged = h.logged,
                                    !.text = IF h.found
                                             THEN FormatDistance(h.distance, 0)
                                             ELSE ""]
    /\ UNCHANGED <<rows, nextId, clock, pc, req, resp>>

\* the distances offered to the serialization: whole meters and thousandths,
\* with values halfway between two hundredths whose float64 lies below
\* (1015, 9995, 0.015, 2.675), above (0.005, 0.025) and on them (12.125)
FormatMeters ==
    {0, 1, 2, 12, 999, 1000, 1001, 1015, 1234, 1499, 1500, 9995, 9999, 10000, 4984944}
FormatMillis == {0, 4, 5, 6, 15, 25, 125, 250, 499, 501, 675, 994, 996, 999}

\* a NearestLocation is written to a response body
MarshalNearest(meters, millis) ==
    /\ last' = [NoResult EXCEPT !.op = "marshal", !.found = TRUE,
                                !.distance = meters, !.millis = millis,
                                !.text = FormatDistance(meters, millis)]
    /\ UNCHANGED <<rows, nextId, clock, pc, req, resp>>

\* time passes between two statements, or does not
Tick ==
    /\ clock < MaxClock
    /\ clock' = clock + 1
    /\ UNCHANGED <<rows, nextId, last, pc, req, resp>>

Next ==
    \/ \E body \in RegBodies : HandleRegisterLocation(body, "none")
    \/ \E name \in Keys : HandleGetLocation(name, "none")
    \/ HandleListLocations("none")
    \/ \E name \in Keys : HandleDeleteLocation(name, "none")
    \/ \E lat \in RawLats, lng \in RawLons :
           HandleGetNearestLocation(lat, lng, "none")
    \/ Tick

Spec == Init /\ [][Next]_vars

\* the same requests served while statements may fail
NextFaults ==
    \/ Next
    \/ \E body \in RegBodies, fault \in Faults :
           HandleRegisterLocation(body, fault)
    \/ \E name \in Keys, fault \in Faults : HandleGetLocation(name, fault)
    \/ \E fault \in Faults : HandleListLocations(fault)
    \/ \E name \in Keys, fault \in Faults : HandleDeleteLocation(name, fault)
    \/ \E lat \in RawLats, lng \in RawLons, fault \in Faults :
           HandleGetNearestLocation(lat, lng, fault)

SpecFaults == Init /\ [][NextFaults]_vars

\* the /locations routes of NewRouter, as chi matches them: the method picks
\* the tree, a path with nothing after /locations/ is the pattern "/", and the
\* static segment "nearest" is matched ahead of the parameter {name}
NameNearest == <<"n", "e", "a", "r", "e", "s", "t">>

Route(method, segment) ==
    IF method = "POST"
    THEN IF segment = <<>> THEN "RegisterLocation" ELSE "MethodNotAllowed"
    ELSE IF method = "GET"
    THEN IF segment = <<>> THEN "ListLocations"
         ELSE IF segment = NameNearest THEN "GetNearestLocation"
         ELSE "GetLocation"
    ELSE IF method = "DELETE"
    THEN IF segment = <<>> THEN "MethodNotAllowed" ELSE "DeleteLocation"
    ELSE "MethodNotAllowed"

\* the path segments and the bodies of the requests sent through the router
RouteSegments == Keys \cup {NameNearest}
RouteRequests ==
    RegRequests \cup {[name |-> NameNearest, latitude |-> 45, longitude |-> 90]}

\* requests served by the handler the router picks
NextRoutes ==
    \/ \E rq \in RouteRequests :
           /\ Route("POST", <<>>) = "RegisterLocation"
           /\ HandleRegisterLocation(JsonBody(rq), "none")
    \/ \E segment \in RouteSegments :
           /\ Route("GET", segment) = "GetLocation"
           /\ HandleGetLocation(segment, "none")
    \/ \E segment \in RouteSegments :
           /\ Route("GET", segment) = "ListLocations"
           /\ HandleListLocations("none")
    \/ \E segment \in RouteSegments, lat \in RawLats, lng \in RawLons :
           /\ Route("GET", segment) = "GetNearestLocation"
           /\ HandleGetNearestLocation(lat, lng, "none")
    \/ \E segment \in RouteSegments :
           /\ Route("DELETE", segment) = "DeleteLocation"
           /\ HandleDeleteLocation(segment, "none")

SpecRoutes == Init /\ [][NextRoutes]_vars

\* serialization of nearest locations at the distances of FormatMeters and
\* FormatMillis
NextFormat ==
    \E meters \in FormatMeters, millis \in FormatMillis : MarshalNearest(meters, millis)

SpecFormat == Init /\ [][NextFormat]_vars

(***************************************************************************)
(* Concurrent registration: each worker serves one POST that passed the    *)
(* handler's validation (a rejected one never reaches the service, see     *)
(* HandleRegisterLocation).  The service call is one INSERT statement,     *)
(* atomic in the engine.  nameHeld and slugHeld record what the table held *)
(* when the call started.                                                  *)
(***************************************************************************)
BeginRegister(p, name, latitude, longitude) ==
    LET request == [name |-> name, latitude |-> latitude, longitude |-> longitude]
    IN  /\ pc[p] = "idle"
        /\ InvalidFields(request) = {}
        /\ pc' = [pc EXCEPT ![p] = "create"]
        /\ req' = [req EXCEPT ![p] =
                      [name |-> name, latitude |-> latitude, longitude |-> longitude,
                       nameHeld |-> \E r \in rows : r.name = name,
                       slugHeld |-> \E r \in rows : r.slug = Slugify(name)]]
        /\ UNCHANGED <<rows, nextId, clock, last, resp>>

CreateStep(p) ==
    LET r == RegisterLocation(rows, req[p], nextId, clock, "none")
    IN  /\ pc[p] = "create"
        /\ nextId <= MaxId \/ ~r.found
        /\ rows' = r.table
        /\ nextId' = IF r.found THEN nextId + 1 ELSE nextId
        /\ resp' = [resp EXCEPT ![p] = [found |-> r.found, loc |-> r.loc, err |-> r.err]]
        /\ pc' = [pc EXCEPT ![p] = "done"]
        /\ UNCHANGED <<clock, last, req>>

NextConcurrent ==
    \/ \E p \in Procs, name \in RegNames, latitude \in RegLats, longitude \in RegLons :
           BeginRegister(p, name, latitude, longitude)
    \/ \E p \in Procs : CreateStep(p)

\* the calls start on an empty table or on one that a first registration filled
InitConcurrent ==
    /\ \E name \in RegNames :
           LET r == RegisterLocation({}, [name |-> name, latitude |-> 45, longitude |-> 90],
                                     1, 0, "none")
           IN  \/ rows = {} /\ nextId = 1
               \/ name # <<>> /\ rows = r.table /\ nextId = 2
    /\ clock = 0
    /\ last = NoResult
    /\ pc = [p \in Procs |-> "idle"]
    /\ req = [p \in Procs |-> NoRequest]
    /\ resp = [p \in Procs |-> NoResponse]

SpecConcurrent == InitConcurrent /\ [][NextConcurrent]_vars

(***************************************************************************)
(* Claims.                                                                 *)
(***************************************************************************)

\* C1: in every reachable state any two distinct stored locations have
\* different names and different slugs.
C1_UniqueNameAndSlug ==
    \A r1, r2 \in rows : r1 # r2 => r1.name # r2.name /\ r1.slug # r2.slug

\* two locations are stored and the latest register was refused as a conflict
C1_Witness ==
    /\ Cardinality(rows) = 2
    /\ last.op = "register"
    /\ last.err.code = 409

\* the calls of register for name n that have started
SameNameCalls(n) == {p \in Procs : pc[p] # "idle" /\ req[p].name = n}

Winners(S) == {p \in S : resp[p].found /\ resp[p].err = NoErr}

ExactlyOneWinner(n) ==
    /\ Cardinality(Winners(SameNameCalls(n))) = 1
    /\ \A p \in SameNameCalls(n) \ Winners(SameNameCalls(n)) :
           ~resp[p].found /\ resp[p].err.code = 409
    /\ Cardinality({r \in rows : r.name = n}) = 1

\* C2 as stated: two or more concurrent register calls for one name, started
\* on a table that does not hold the name, end with exactly one created
\* location, ConflictError for every other call, and one row for the name.
C2_Original ==
    \A n \in RegNames :
        (/\ Cardinality(SameNameCalls(n)) >= 2
         /\ \A p \in SameNameCalls(n) : pc[p] = "done" /\ ~req[p].nameHeld)
        => ExactlyOneWinner(n)

\* C2 amended: the same, for calls started on a table that holds neither the
\* name nor its slug, while no call registers another name with that slug.
C2_OneWinner ==
    \A n \in RegNames :
        (/\ Cardinality(SameNameCalls(n)) >= 2
         /\ \A p \in SameNameCalls(n) :
                pc[p] = "done" /\ ~req[p].nameHeld /\ ~req[p].slugHeld
         /\ \A q \in Procs \ SameNameCalls(n) :
                pc[q] = "idle" \/ Slugify(req[q].name) # Slugify(n))
        => ExactlyOneWinner(n)

\* two calls for the same name both started on a table without it or its slug
\* and both returned, one with the location and one with a conflict
C2_Witness ==
    \E p, q \in Procs :
        /\ p # q
        /\ pc[p] = "done" /\ pc[q] = "done"
        /\ req[p].name = req[q].name
        /\ ~req[p].slugHeld /\ ~req[q].slugHeld
        /\ resp[p].found /\ resp[q].err.code = 409

\* the coordinates register accepts by its stated ranges, the bounds and zero
\* among them
ValidLats == {-90, -45, 0, 45, 90}
ValidLons == {-180, 0, 90, 180}

\* get answers NotFound for key k on the table
GetNotFound(table, k) ==
    \A o \in GetLocation(table, k, "none") : ~o.found /\ o.err.code = 404

\* C3: for every non-empty name, latitude in [-90, 90] and longitude in
\* [-180, 180] whose name and slug are not stored, register succeeds and a
\* following get(name) returns the location with the registered name, latitude
\* and longitude, the slug Slugify(name) and the id register returned.
C3_RegisterThenGet ==
    \A name \in RegNames \ {EmptyName}, lat \in ValidLats, lon \in ValidLons :
        (\A r \in rows : r.name # name /\ r.slug # Slugify(name)) =>
            LET reg == RegisterLocation(
                           rows, [name |-> name, latitude |-> lat, longitude |-> lon],
                           nextId, clock, "none")
            IN  /\ reg.found /\ reg.err = NoErr
                /\ \A o \in GetLocation(reg.table, name, "none") :
                       /\ o.found /\ o.err = NoErr
                       /\ o.loc.name = name
                       /\ o.loc.latitude = lat
                       /\ o.loc.longitude = lon
                       /\ o.loc.slug = Slugify(name)
                       /\ o.loc.id = reg.loc.id

\* a get returned a stored location that was registered next to another one
C3_Witness ==
    /\ last.op = "get"
    /\ last.found
    /\ Cardinality(rows) = 2
    /\ \E r \in rows : ScanLocation(r) = last.loc /\ r.slug # r.name

\* C4: for every stored name, get(Slugify(name)) returns the same location as
\* get(name).
C4_GetBySlug ==
    \A r \in rows :
        /\ GetLocation(rows, Slugify(r.name), "none") = GetLocation(rows, r.name, "none")
        /\ \A o \in GetLocation(rows, Slugify(r.name), "none") :
               o.found /\ o.loc = ScanLocation(r)

\* a get returned a stored location whose slug differs from its name while
\* another location is stored too
C4_Witness ==
    /\ last.op = "get"
    /\ last.found
    /\ last.loc.slug # last.loc.name
    /\ \E r \in rows : ScanLocation(r) # last.loc

\* the geodesic distance between two latitude/longitude pairs
SurfaceDistance(lat1, lon1, lat2, lon2) ==
    ST_Distance(ST_MakePoint(lon1, lat1), ST_MakePoint(lon2, lat2))

\* C5: on a non-empty table findNearest(lat, lon) returns a stored location L
\* with distance = d((lat, lon), L), and no stored location is nearer (of
\* several at the minimum, one of them).
C5_NearestIsMinimal ==
    \A lat \in QueryLats, lon \in QueryLons :
        rows # {} =>
            \A o \in SvcGetNearestLocation(rows, lat, lon, "none") :
                /\ o.found /\ o.err = NoErr
                /\ \E r \in rows : ScanLocation(r) = o.loc
                /\ o.distance =
                       SurfaceDistance(lat, lon, o.loc.latitude, o.loc.longitude)
                /\ \A r \in rows :
                       o.distance <= SurfaceDistance(lat, lon, r.latitude, r.longitude)

\* findNearest answered with one of two stored locations, at a positive
\* distance, the other one being strictly farther from some query point at
\* that distance
C5_Witness ==
    /\ last.op = "nearest"
    /\ last.found
    /\ last.distance > 0
    /\ \E r \in rows, lat \in QueryLats, lon \in QueryLons :
           /\ ScanLocation(r) # last.loc
           /\ SurfaceDistance(lat, lon, last.loc.latitude, last.loc.longitude)
                  = last.distance
           /\ SurfaceDistance(lat, lon, r.latitude, r.longitude) > last.distance

\* C6: findNearest answers NotFound exactly when the table is empty; on a
\* table of one location it returns that location with a distance >= 0.
C6_NearestNotFoundIffEmpty ==
    \A lat \in QueryLats, lon \in QueryLons :
        \A o \in SvcGetNearestLocation(rows, lat, lon, "none") :
            /\ (~o.found /\ o.err.code = 404) <=> rows = {}
            /\ Cardinality(rows) = 1 =>
                   /\ o.found /\ o.err = NoErr
                   /\ \A r \in rows : o.loc = ScanLocation(r)
                   /\ o.distance >= 0

\* findNearest answered NotFound on a table emptied after a registration
C6_Witness ==
    /\ last.op = "nearest"
    /\ ~last.found
    /\ last.err.code = 404
    /\ rows = {}
    /\ nextId > 1

\* the name, latitude and longitude a register request must not carry: an empty
\* name, a latitude outside [-90, 90], a longitude outside [-180, 180]
OutsideStatedRanges(name, lat, lon) ==
    \/ name = EmptyName
    \/ lat < -90 \/ lat > 90
    \/ lon < -180 \/ lon > 180

\* C7 as stated: the service's register answers an empty name or a coordinate
\* out of range with a validation error and leaves the table as it was.
C7_Original ==
    \A name \in RegNames, lat \in RegLats, lon \in RegLons :
        OutsideStatedRanges(name, lat, lon) =>
            LET reg == RegisterLocation(
                           rows, [name |-> name, latitude |-> lat, longitude |-> lon],
                           nextId, clock, "none")
            IN  reg.err.code = 400 /\ reg.table = rows

\* C7 amended: the handler answers an empty name or a coordinate out of range
\* with a validation error (400) without calling the service's register, so
\* the repository's create is not invoked and the table is as it was.
C7_HandlerValidates ==
    \A name \in RegNames, lat \in RegLats, lon \in RegLons :
        OutsideStatedRanges(name, lat, lon) =>
            LET h == RegisterLocationResponse(
                         rows,
                         JsonBody([name |-> name, latitude |-> lat, longitude |-> lon]),
                         nextId, clock, "none")
            IN  /\ ~h.called
                /\ h.err.code = 400
                /\ h.invalid # {}
                /\ ~h.found
                /\ h.table = rows

\* a register request was refused for its name on a table that holds a location
C7_Witness ==
    /\ last.op = "register"
    /\ last.err.code = 400
    /\ "Name" \in last.invalid
    /\ rows # {}

\* C8: a delete(key) that succeeds for the name or the slug of a stored
\* location leaves get by that name and get by that slug NotFound, and a key
\* get answers NotFound for stays so over every step but a successful register.
C8_DeletedStaysNotFound ==
    [][/\ \A k \in Keys : \A r \in rows :
              (/\ last'.op = "delete"
               /\ last'.err = NoErr
               /\ (r.name = k \/ r.slug = k)
               /\ HandleDeleteLocation(k, "none"))
              => GetNotFound(rows', r.name) /\ GetNotFound(rows', r.slug)
       /\ \A k \in Keys :
              (rows' # rows /\ GetNotFound(rows, k) /\ ~GetNotFound(rows', k))
              => last'.op = "register" /\ last'.found]_vars

\* a delete removed one of two stored locations
C8_Witness ==
    /\ last.op = "delete"
    /\ last.err = NoErr
    /\ last.affected = 1
    /\ Cardinality(rows) = 1

\* C9: list on an empty table succeeds with an empty sequence that is not nil.
C9_EmptyListNotNil ==
    (last.op = "list" /\ rows = {}) =>
        /\ last.err = NoErr
        /\ ~last.locations.isNil
        /\ last.locations.items = <<>>

\* C10: list returns every stored location exactly once and nothing else (so
\* no deleted location), in non-increasing created_at order.
C10_ListAllNewestFirst ==
    \A o \in SvcListLocations(rows, "none") :
        /\ o.err = NoErr
        /\ Len(o.locations.items) = Cardinality(rows)
        /\ {o.locations.items[i] : i \in 1..Len(o.locations.items)}
               = {ScanLocation(r) : r \in rows}
        /\ \A i, j \in 1..Len(o.locations.items) :
               i < j => o.locations.items[i].created_at
                           >= o.locations.items[j].created_at

\* list returned two locations, the later-created one first
C10_Witness ==
    /\ last.op = "list"
    /\ last.err = NoErr
    /\ Len(last.locations.items) = 2
    /\ last.locations.items[1].created_at > last.locations.items[2].created_at

\* every way a statement can go
Outcomes == Faults \cup {"none"}

\* the Location the service hands to the repository for a request
LocationToCreate(rq) ==
    [NoLocation EXCEPT !.name = rq.name, !.latitude = rq.latitude,
                       !.longitude = rq.longitude]

\* C11: register answers the repository's conflict with a 409 error whose
\* message is "location already exists", every other repository failure with
\* ErrInternal, and never hands back the repository's own error.
C11_RegisterErrorMapping ==
    \A rq \in RegRequests, fault \in Outcomes :
        LET c == CreateLocation(rows, LocationToCreate(rq), nextId, clock, fault)
            r == RegisterLocation(rows, rq, nextId, clock, fault)
        IN  /\ c.err = NoErr => r.err = NoErr /\ r.found
            /\ c.err.code = 409 =>
                   r.err = [code |-> 409, msg |-> "location already exists"]
            /\ (c.err # NoErr /\ c.err.code # 409) => r.err = ErrInternal
            /\ c.err # NoErr => r.err # c.err /\ ~r.found

\* a register was answered with the generic internal error on a table that
\* holds a location
C11_Witness ==
    /\ last.op = "register"
    /\ last.err = ErrInternal
    /\ rows # {}

\* the errors the service may hand to its caller: not found and conflict with
\* their fixed messages, and the generic internal error
ServiceErrors ==
    {ErrDataNotFound,
     [code |-> 404, msg |-> "no location found"],
     [code |-> 409, msg |-> "location already exists"],
     ErrInternal}

\* the texts the driver reports
DriverTexts == {PgUniqueViolation.text, DriverFailure.text, PgOtherError.text}

\* the errors the five service operations answer with on a table, whatever
\* the request and whatever the statement's outcome
ServiceAnswers(table, id, now) ==
    UNION {
        {RegisterLocation(table, rq, id, now, f).err : rq \in RegRequests}
        \cup {o.err : o \in UNION {GetLocation(table, k, f) : k \in Keys}}
        \cup {o.err : o \in SvcListLocations(table, f)}
        \cup {SvcDeleteLocation(table, k, f).err : k \in Keys}
        \cup {o.err : o \in UNION {SvcGetNearestLocation(table, lat, lon, f) :
                                       lat \in QueryLats, lon \in QueryLons}}
        : f \in Outcomes}

\* C12: whatever the storage does, an error a service operation returns is
\* not found or conflict with a fixed message, or the generic internal
\* error; the driver's text is never in it.
C12_NoDriverText ==
    \A e \in ServiceAnswers(rows, nextId, clock) \ {NoErr} :
        e \in ServiceErrors /\ e.msg \notin DriverTexts

\* a get failed in the storage and was answered with the generic internal error
C12_Witness ==
    /\ last.op = "get"
    /\ last.err = ErrInternal
    /\ ~last.found
    /\ rows # {}

\* C13: when the repository's nearest query answers not found, the service
\* answers with a 404 error whose message is exactly "no location found";
\* every other repository error becomes ErrInternal.
C13_NearestErrorMapping ==
    \A lat \in QueryLats, lon \in QueryLons, fault \in Outcomes :
        \A o \in GetNearestLocation(rows, lat, lon, fault) :
            \A s \in SvcGetNearestLocation(rows, lat, lon, fault) :
                /\ o.err.code = 404 =>
                       s.err = [code |-> 404, msg |-> "no location found"] /\ ~s.found
                /\ (o.err # NoErr /\ o.err.code # 404) =>
                       s.err = ErrInternal /\ ~s.found
                /\ o.err = NoErr => s.err = NoErr /\ s.found

\* the nearest query failed in the storage on an empty table and was answered
\* with the generic internal error
C13_Witness ==
    /\ last.op = "nearest"
    /\ last.err = ErrInternal
    /\ rows = {}

\* C14: the serialized distance is the value meters/1000 to 2 decimals with
\* the suffix "kilometers" when the distance is at least 1000 meters, and the
\* value in meters to 2 decimals with the suffix "meters" below; 1000 meters
\* is written "1.00 kilometers".
C14_FormatDistance ==
    last.op = "marshal" =>
        LET v == DistanceValue(last.distance, last.millis)
        IN  /\ last.text = Sprintf2(v.hundredths) \o " " \o v.unit
            /\ last.distance >= 1000 =>
                   /\ v.unit = "kilometers"
                   /\ (v.hundredths * 10 - last.distance) * 1000 - last.millis \in -5000..5000
            /\ last.distance < 1000 =>
                   /\ v.unit = "meters"
                   /\ v.hundredths * 10 - (last.distance * 1000 + last.millis) \in -5..5
            /\ (last.distance = 1000 /\ last.millis = 0) => last.text = "1.00 kilometers"
            /\ (last.distance = 1500 /\ last.millis = 0) => last.text = "1.50 kilometers"
            /\ (last.distance = 1234 /\ last.millis = 501) => last.text = "1.23 kilometers"
            /\ (last.distance = 999 /\ last.millis = 994) => last.text = "999.99 meters"
            /\ (last.distance = 12 /\ last.millis = 125) => last.text = "12.12 meters"
            /\ (last.distance = 0 /\ last.millis = 0) => last.text = "0.00 meters"
            /\ (last.distance = 1015 /\ last.millis = 0) => last.text = "1.01 kilometers"
            /\ (last.distance = 9995 /\ last.millis = 0) => last.text = "9.99 kilometers"
            /\ (last.distance = 0 /\ last.millis = 5) => last.text = "0.01 meters"
            /\ (last.distance = 0 /\ last.millis = 15) => last.text = "0.01 meters"
            /\ (last.distance = 0 /\ last.millis = 25) => last.text = "0.03 meters"
            /\ (last.distance = 2 /\ last.millis = 675) => last.text = "2.67 meters"

\* the boundary distance of 1000 meters was serialized
C14_Witness ==
    /\ last.op = "marshal"
    /\ last.distance = 1000
    /\ last.millis = 0
    /\ last.text = "1.00 kilometers"

\* C15: delete(key) for a key that is no stored name and whose slug is no
\* stored slug succeeds and leaves the table as it was; and a second
\* delete(key) right after a first gives the table and the answer of the first.
C15_DeleteNoMatchIsNoOp ==
    \A k \in Keys :
        LET d1 == SvcDeleteLocation(rows, k, "none")
            d2 == SvcDeleteLocation(d1.table, k, "none")
        IN  /\ (\A r \in rows : r.name # k /\ r.slug # Slugify(k)) =>
                   d1.err = NoErr /\ d1.table = rows
            /\ d2.err = d1.err
            /\ d2.table = d1.table

\* a delete that removed nothing from a table holding a location succeeded
C15_Witness ==
    /\ last.op = "delete"
    /\ last.err = NoErr
    /\ last.affected = 0
    /\ rows # {}

\* C16: the handler refuses no register request with a non-empty name, a
\* latitude in [-90, 90] and a longitude in [-180, 180], zero and the bounds
\* included: none is answered with a validation error.
C16_AcceptsClosedDomain ==
    \A name \in RegNames \ {EmptyName}, lat \in ValidLats, lon \in ValidLons :
        LET h == RegisterLocationResponse(
                     rows,
                     JsonBody([name |-> name, latitude |-> lat, longitude |-> lon]),
                     nextId, clock, "none")
        IN  h.called /\ h.invalid = {} /\ h.err.code # 400

\* C17 as stated: a create that fails, with a conflict or with an internal
\* error, leaves the table exactly as it was; a create that succeeds adds
\* exactly one row, which carries the name, the slug, the latitude, the
\* longitude and the point of the request.  It fails for a create whose
\* INSERT was committed while its result was lost: the error is answered and
\* the row is stored.
C17_CreateIsAtomic ==
    \A rq \in RegRequests, fault \in Outcomes :
        LET c == CreateLocation(rows, LocationToCreate(rq), nextId, clock, fault)
        IN  /\ c.err # NoErr => c.table = rows /\ c.err.code \in {409, 500}
            /\ c.err = NoErr =>
                   /\ rows \subseteq c.table
                   /\ Cardinality(c.table \ rows) = 1
                   /\ \A row \in c.table \ rows :
                          /\ row.name = rq.name
                          /\ row.slug = Slugify(rq.name)
                          /\ row.latitude = rq.latitude
                          /\ row.longitude = rq.longitude
                          /\ row.geo = ST_MakePoint(rq.longitude, rq.latitude)
                          /\ ScanLocation(row) = c.loc

\* C18: every stored slug is Slugify of the row's own name; no step changes
\* the name, slug, coordinates or id of a row that stays (a row of the table
\* is in the next table as it is, or is gone); get, list and findNearest
\* leave the table as it is, a register, failed or not, takes no row away,
\* and a delete removes only rows its key matches.
C18_SlugStoredRowsImmutable ==
    [][/\ \A r \in rows' : r.slug = Slugify(r.name)
       /\ \A r \in rows : \A r2 \in rows' : r2.id = r.id => r2 = r
       /\ rows' # rows =>
              /\ last'.op \in {"register", "delete"}
              /\ last'.op = "register" => rows \subseteq rows'
              /\ last'.op = "delete" =>
                     /\ rows' \subseteq rows
                     /\ \A k \in Keys :
                            HandleDeleteLocation(k, "none") =>
                                \A r \in rows \ rows' :
                                    r.name = k \/ r.slug = Slugify(k)]_vars

\* a nearest query answered with a stored location whose slug differs from
\* its name, next to another stored location
C18_Witness ==
    /\ last.op = "nearest"
    /\ last.found
    /\ last.loc.slug # last.loc.name
    /\ last.loc.slug = Slugify(last.loc.name)
    /\ Cardinality(rows) = 2
    /\ \E r \in rows : ScanLocation(r) = last.loc

\* C19: for every key at most one stored location has name = key or
\* slug = Slugify(key): get has one possible answer whatever the row order,
\* and delete removes at most one row.
C19_AtMostOneMatch ==
    /\ \A k \in Keys :
           /\ Cardinality({r \in rows : r.name = k \/ r.slug = Slugify(k)}) <= 1
           /\ Cardinality(GetLocationByName(rows, k, "none")) = 1
           /\ Cardinality(rows \ DeleteLocation(rows, k, "none").table) <= 1
    /\ last.op = "delete" => last.affected <= 1

\* a get found the location named "Ab" while two locations are stored
C19_Witness ==
    /\ last.op = "get"
    /\ last.found
    /\ last.loc.name = NameAb
    /\ Cardinality(rows) = 2

\* C20: a register whose name is no stored name but whose slug is a stored
\* slug is answered with the 409 error "location already exists" and leaves
\* the table as it was.
C20_SlugConflict ==
    [][\A p \in Procs :
           (/\ pc[p] = "create"
            /\ pc'[p] = "done"
            /\ CreateStep(p)
            /\ \A r \in rows : r.name # req[p].name
            /\ \E r \in rows : r.slug = Slugify(req[p].name))
           => /\ resp'[p].err = [code |-> 409, msg |-> "location already exists"]
              /\ ~resp'[p].found
              /\ rows' = rows
              /\ nextId' = nextId]_vars

\* a call for a name that was never stored, started on a table that held its
\* slug, returned a conflict
C20_Witness ==
    \E p \in Procs :
        /\ pc[p] = "done"
        /\ ~req[p].nameHeld
        /\ req[p].slugHeld
        /\ resp[p].err.code = 409
        /\ \A r \in rows : r.name # req[p].name
        /\ \E r \in rows : r.slug = Slugify(req[p].name)

\* C21: delete(key) removes exactly the stored location whose name is key or
\* whose slug is Slugify(key); every other stored location stays, with all its
\* fields.
C21_DeleteFrame ==
    \A k \in Keys :
        LET d == SvcDeleteLocation(rows, k, "none")
        IN  /\ d.err = NoErr
            /\ d.table \subseteq rows
            /\ rows \ d.table = {r \in rows : r.name = k \/ r.slug = Slugify(k)}
            /\ \A r \in rows : (r.name # k /\ r.slug # Slugify(k)) => r \in d.table

\* a delete removed the location created second and left the one created first
C21_Witness ==
    /\ last.op = "delete"
    /\ last.err = NoErr
    /\ last.affected = 1
    /\ nextId = 3
    /\ \E r \in rows : r.id = 1

\* C22 as stated: a delete is a soft delete, the row it matches stays in the
\* table (marked as deleted).  It fails: the repository issues DELETE FROM
\* locations, and the row is gone.
C22_Original ==
    [][(last'.op = "delete" /\ last'.err = NoErr) =>
           \A r \in rows : \E r2 \in rows' : r2.id = r.id]_vars

\* C23: every service operation is single-attempt: the handler's call reaches
\* the repository at most once, and when the statement fails the operation
\* answers ErrInternal at once, after that one call, with the table and the
\* result as the failed call left them (nothing a second call would have
\* produced).  A list whose result stream breaks midway ends without an
\* error (see C25); it too has made its one call.
C23_SingleAttempt ==
    /\ last.calls <= 1
    /\ last.called => last.calls = 1
    /\ \A fault \in Faults :
           /\ \A rq \in RegRequests :
                  LET o == RegisterLocation(rows, rq, nextId, clock, fault)
                      c == CreateLocation(rows, LocationToCreate(rq), nextId, clock,
                                          fault)
                  IN  o.calls = 1 /\ o.err = ErrInternal /\ o.table = c.table
                      /\ ~o.found
           /\ \A k \in Keys :
                  /\ \A o \in GetLocation(rows, k, fault) :
                         o.calls = 1 /\ o.err = ErrInternal /\ ~o.found
                  /\ LET d == SvcDeleteLocation(rows, k, fault)
                     IN  /\ d.calls = 1 /\ d.err = ErrInternal
                         /\ d.table = DeleteLocation(rows, k, fault).table
           /\ \A o \in SvcListLocations(rows, fault) :
                  /\ o.calls = 1
                  /\ o.err # NoErr => o.err = ErrInternal /\ o.locations = NilSlice
           /\ \E o \in SvcListLocations(rows, fault) : o.err = ErrInternal
           /\ \A latitude \in QueryLats, longitude \in QueryLons :
                  \A o \in SvcGetNearestLocation(rows, latitude, longitude, fault) :
                      o.calls = 1 /\ o.err = ErrInternal /\ ~o.found

\* a delete whose statement failed was answered with ErrInternal after one
\* call and the row it named is still stored
C23_Witness ==
    /\ last.op = "delete"
    /\ last.err = ErrInternal
    /\ last.calls = 1
    /\ last.affected = 0
    /\ rows # {}

\* C24: whenever a service operation answers ErrInternal for a failure of the
\* storage, it has logged the underlying error first.  LocationService's
\* GetNearestLocation returns ErrInternal without a log call, so a nearest
\* query whose statement fails breaks this.
C24_InternalErrorIsLogged ==
    (last.called /\ last.err = ErrInternal) => last.logged

\* C25: if the storage fails at any point of list (running the query,
\* scanning a row, or while the rows are iterated) the answer is ErrInternal,
\* never a part of the locations as a success.  ListLocations does not read
\* rows.Err() after its loop, so a result stream that breaks midway is
\* answered with the locations fetched so far and no error.
C25_ListFailureIsInternalError ==
    \A fault \in Faults :
        \A o \in SvcListLocations(rows, fault) :
            /\ o.err = ErrInternal
            /\ o.locations = NilSlice

\* C26: a nearest query on an empty table is answered with status 404,
\* success false and a message that contains "not found".  The status and the
\* success flag are so; the message the service sets is "no location found".
C26_NearestOnEmptyStore ==
    (last.op = "nearest" /\ last.called /\ rows = {}) =>
        LET body == handleError(last.err)
        IN  /\ ~last.found
            /\ body.status = 404
            /\ ~body.success
            /\ Contains(Spell[body.message], NotFoundText)

\* C27: the handlers answer malformed transport input with a 400 error and do
\* not call the service: a get or a delete with an empty name is answered
\* "Invalid location name" and the table stays as it is; a nearest query whose
\* lat is not the text of a float64 is answered "Invalid latitude" whatever
\* lng is, one whose lat is such a text and whose lng is not is answered
\* "Invalid longitude", and one with two such texts calls the service and is
\* not answered 400.  The texts of a float64 are those ParseFloat accepts:
\* decimal and hexadecimal numbers within the range of a float64, and the
\* words Inf, Infinity and NaN, which therefore reach the service.
C27_MalformedInputRejected ==
    /\ \A h \in GetLocationResponse(rows, EmptyName, "none") :
           /\ h.err = [code |-> 400, msg |-> "Invalid location name"]
           /\ ~h.called /\ h.calls = 0
    /\ LET d == DeleteLocationResponse(rows, EmptyName, "none")
       IN  /\ d.err = [code |-> 400, msg |-> "Invalid location name"]
           /\ ~d.called /\ d.calls = 0
           /\ d.table = rows
    /\ \A k \in Keys \ {EmptyName} :
           /\ \A h \in GetLocationResponse(rows, k, "none") :
                  h.called /\ h.err.code # 400
           /\ DeleteLocationResponse(rows, k, "none").called
    /\ \A lat \in RawLats, lng \in RawLons :
           LET latErr == ParseFloat(lat).err
               lngErr == ParseFloat(lng).err
           IN  \A h \in GetNearestLocationResponse(rows, lat, lng, "none") :
                   /\ latErr =>
                          /\ h.err = [code |-> 400, msg |-> "Invalid latitude"]
                          /\ ~h.called /\ h.calls = 0
                   /\ (~latErr /\ lngErr) =>
                          /\ h.err = [code |-> 400, msg |-> "Invalid longitude"]
                          /\ ~h.called /\ h.calls = 0
                   /\ (~latErr /\ ~lngErr) =>
                          h.called /\ h.err.code # 400
    /\ (last.op \in {"get", "delete"} /\ last.err.code = 400) =>
           last.err.msg = "Invalid location name" /\ ~last.called
    /\ (last.op = "nearest" /\ last.err.code = 400) =>
           /\ ~last.called
           /\ last.err.msg \in {"Invalid latitude", "Invalid longitude"}

\* a nearest query was refused for its latitude while a location is stored
C27_Witness ==
    /\ last.op = "nearest"
    /\ last.err = [code |-> 400, msg |-> "Invalid latitude"]
    /\ ~last.called
    /\ rows # {}

\* C28: every stored location can be fetched with GET /v1/locations/{key} and
\* removed with DELETE /v1/locations/{key}, the key being its name or, when it
\* has one, its slug: the router hands the request to GetLocation and to
\* DeleteLocation, which find the location.  chi matches the static route
\* /nearest ahead of /{name}, so GET for the stored name "nearest" is served
\* by the nearest search.
C28_RegisteredIsAddressable ==
    \A r \in rows :
        \A key \in {r.name} \cup ({r.slug} \ {<<>>}) :
            /\ Route("GET", key) = "GetLocation"
            /\ \A o \in GetLocation(rows, key, "none") :
                   o.err = NoErr /\ o.found /\ o.loc.id = r.id
            /\ Route("DELETE", key) = "DeleteLocation"
            /\ LET d == SvcDeleteLocation(rows, key, "none")
               IN  d.err = NoErr /\ d.table = rows \ {r}

\* C29: once a location is deleted, a register with the same name succeeds
\* again, and the location it returns has an id other than the deleted one's:
\* every stored id was issued before the next one, a successful register
\* returns the next id, and a register of a just deleted name at an accepted
\* position succeeds under an id the deleted row did not carry.
C29_ReRegisterAfterDelete ==
    [][/\ \A r \in rows : r.id < nextId
       /\ nextId' >= nextId
       /\ (last'.op = "register" /\ last'.found /\ rows' # rows) =>
              /\ last'.loc.id = nextId
              /\ nextId' = nextId + 1
              /\ \A r \in rows : r.id # last'.loc.id
              /\ \E r \in rows' \ rows : ScanLocation(r) = last'.loc
       /\ (last'.op = "delete" /\ last'.err = NoErr /\ rows' # rows) =>
              \A r \in rows \ rows' :
                  \A rq \in RegRequests :
                      (rq.name = r.name /\ InvalidFields(rq) = {}) =>
                          LET o == RegisterLocation(rows', rq, nextId', clock', "none")
                          IN  /\ o.err = NoErr /\ o.found
                              /\ o.loc.name = r.name
                              /\ o.loc.id # r.id]_vars

\* the only stored location was registered, under the second id, after the
\* holder of the first id was deleted
C29_Witness ==
    /\ last.op = "register"
    /\ last.found
    /\ last.loc.id = 2
    /\ last.loc.name = NameAb
    /\ \A r \in rows : r.id = 2 /\ r.name = NameAb

\* C30: latitude and longitude are given to ST_MakePoint in the same order at
\* insertion and for the query point: a nearest query at the coordinates of a
\* stored location is answered with a location at those coordinates, at
\* distance 0.
C30_NearestAtStoredPoint ==
    \A r \in rows :
        /\ NearestQueryPoint(r.latitude, r.longitude) = r.geo
        /\ \A o \in SvcGetNearestLocation(rows, r.latitude, r.longitude, "none") :
               /\ o.err = NoErr /\ o.found
               /\ o.loc.latitude = r.latitude
               /\ o.loc.longitude = r.longitude
               /\ o.distance = 0

\* a nearest query at the position of one of two stored locations, which lie
\* apart, was answered with that location at distance 0
C30_Witness ==
    /\ last.op = "nearest"
    /\ last.found
    /\ last.distance = 0
    /\ Cardinality(rows) = 2
    /\ \E r \in rows : r.latitude # last.loc.latitude
    /\ \E r \in rows : r.id = last.loc.id /\ r.latitude = 45 /\ r.longitude = 90

====
